---- MODULE Spec2Model ----
(***************************************************************************)
(* mkdb: lifecycle orchestration and expiration engine.                    *)
(*                                                                         *)
(* The state is the persisted store (containers, users, events), the       *)
(* container runtime (Docker containers and Docker volumes), the           *)
(* directories on disk, the wall clock, and the position of the one CLI    *)
(* process inside a multi-step handler.  One action per command handler;   *)
(* Remove and the expiration sweep are split where the code writes the     *)
(* event row and then deletes the container row.                           *)
(***************************************************************************)
EXTENDS Integers, Sequences, FiniteSets, TLC

\* ---------------------------------------------------------------- bounds
MaxTime == 2
MaxRecords == 2
MaxRuntime == 2
MaxEvents == 3
MaxUsers == 3

\* ------------------------------------------------------ program constants
containerPrefix == "mkdb-"
DefaultUsername == "dbuser"
DefaultPassword == "$uper$ecret"
VolumesDir == "/mkdb/volumes"
maxAttempts == 100
DefaultTTL == 2
GeneratedLength == 12

\* ------------------------------------------------------------ input sets
Names == {"a", "b"}
StartNames == {"a"}
DBTypes == {"postgres"}
Versions == {""}
NoPort == 0
PortInputs == {NoPort}
BindPaths == {"/data"}
VolumeInputs == {"none", "named"} \cup BindPaths
AuthModes == {"auth", "flag_noauth", "prompt_noauth"}
\* the volume and authentication choices that are run together
StartProfiles ==
    {<<"named", "auth">>, <<"none", "flag_noauth">>, <<"/data", "prompt_noauth">>}
Nonces == {"n1"}
TTLInputs == {1}
HoursInputs == {1}
GeneratedPasswords == {"k3Jd82nXp0Qz"}
DockerVolumeNames == {"a", "a_data"}
NoFaults == {}

VARIABLES
    containers,   \* rows of table containers
    users,        \* rows of table users
    events,       \* rows of table events, in insertion order
    nextId,       \* next AUTOINCREMENT id of containers
    nextUid,      \* next AUTOINCREMENT id of users
    runtime,      \* containers known to the Docker daemon
    nextRid,      \* next identifier the Docker daemon hands out
    dockerVols,   \* Docker volumes known to the daemon
    dirs,         \* directories that exist on disk
    now,          \* wall clock, in hours
    pc,           \* where the CLI process stands
    work,         \* container snapshots a handler still has to delete
    last,         \* outcome of the command that ran last
    keyFile,      \* the encryption key file of the data directory
    kpc,          \* per invocation: down, the stage of its start, or up
    encryptionKey,\* per invocation: config.encryptionKey
    starts,       \* invocations started so far
    vault,        \* ciphertexts stored so far, with what they encrypt
    decrypted,    \* outcome of the decryption that ran last
    query,        \* the type string handed to the adapter registry
    answer,       \* what the registry call that ran last returned
    listed,       \* what the calls of Registry.List returned, in order
    execCall,     \* the command being executed inside a container
    inflight      \* per concurrent invocation: where its start stands

mainVars == <<containers, users, events, nextId, nextUid, runtime, nextRid,
              dockerVols, dirs, now, pc, work, last>>

keyVars == <<keyFile, kpc, encryptionKey, starts, vault, decrypted>>

libVars == <<query, answer, listed, execCall, inflight>>

vars == <<containers, users, events, nextId, nextUid, runtime, nextRid,
          dockerVols, dirs, now, pc, work, last, keyFile, kpc, encryptionKey,
          starts, vault, decrypted, query, answer, listed, execCall,
          inflight>>

storeVars == <<containers, users, events, nextId, nextUid>>

\* ------------------------------------------------------------- adapters
\* PostgresAdapter / MySQLAdapter / RedisAdapter .GetDefaultPort
GetDefaultPort(t) ==
    CASE t = "postgres" -> 5432
      [] t = "mysql" -> 3306
      [] OTHER -> 6379

\* GetImage: the adapter's default tag when no version is given
GetImage(t, ver) ==
    <<t, IF ver # "" THEN ver
         ELSE IF t = "postgres" THEN "18"
         ELSE IF t = "redis" THEN "8"
         ELSE "latest">>

\* ---------------------------------------------------------- credentials
\* A ciphertext is the nonce followed by the sealed plaintext; the empty
\* string is the empty sequence.
NonceSize == 1
EmptyHash == <<>>
Encrypt(plaintext, nonce) == <<nonce, plaintext>>

Decrypt(ciphertext) ==
    IF Len(ciphertext) < NonceSize
    THEN [ok |-> FALSE, val |-> ""]
    ELSE [ok |-> TRUE, val |-> ciphertext[NonceSize + 1]]

\* --------------------------------------------------- encryption at rest
\* Here a string or byte slice is the sequence of its bytes, and a hex string
\* the sequence of the values of its digits.
KeySize == 32
GcmNonceSize == 12
GcmTagSize == 16
ByteValues == 256
HexBase == 16

Ok(val) == [ok |-> TRUE, val |-> val]
Failed == [ok |-> FALSE, val |-> <<>>]

RECURSIVE Sum(_)
Sum(bs) == IF bs = <<>> THEN 0 ELSE Head(bs) + Sum(Tail(bs))

\* an encoding that writes a byte below sixteen as one digit
RECURSIVE HexEncodeUnpadded(_)
HexEncodeUnpadded(bs) ==
    IF bs = <<>> THEN <<>>
    ELSE (IF Head(bs) < HexBase THEN <<Head(bs)>>
          ELSE <<Head(bs) \div HexBase, Head(bs) % HexBase>>)
         \o HexEncodeUnpadded(Tail(bs))

\* hex.EncodeToString: two digits for every byte
RECURSIVE HexEncodeToString(_)
HexEncodeToString(bs) ==
    IF bs = <<>> THEN <<>>
    ELSE <<Head(bs) \div HexBase, Head(bs) % HexBase>>
         \o HexEncodeToString(Tail(bs))

\* hex.DecodeString: fails on an odd length or on a character that is no digit
HexDecodeString(h) ==
    IF Len(h) % 2 # 0 \/ \E i \in 1 .. Len(h) : h[i] \notin 0 .. (HexBase - 1)
    THEN Failed
    ELSE Ok([i \in 1 .. (Len(h) \div 2) |-> h[2 * i - 1] * HexBase + h[2 * i]])

\* aes.NewCipher accepts keys of 16, 24 and 32 bytes
NewCipher(key) == Len(key) \in {16, 24, KeySize}

\* AES-GCM, reduced to what the callers rely on: the ciphertext is the
\* plaintext under a key stream that key and nonce determine, followed by a
\* tag that key, nonce and ciphertext determine; opening checks the tag.
KeyStream(key, nonce) == (Sum(key) + Sum(nonce)) % ByteValues

GcmTag(key, nonce, ct) ==
    LET mac == (7 * Sum(key) + 3 * Sum(nonce) + Sum(ct)) % ByteValues
    IN  [j \in 1 .. GcmTagSize |-> (mac + j) % ByteValues]

GcmSeal(dst, key, nonce, plaintext) ==
    LET ks == KeyStream(key, nonce)
        ct == [i \in 1 .. Len(plaintext) |->
                  (plaintext[i] + ks + i) % ByteValues]
    IN  dst \o ct \o GcmTag(key, nonce, ct)

GcmOpen(key, nonce, data) ==
    LET n == Len(data) - GcmTagSize
        ct == SubSeq(data, 1, n)
        tag == SubSeq(data, n + 1, Len(data))
        ks == KeyStream(key, nonce)
    IN  IF n < 0 \/ tag # GcmTag(key, nonce, ct) THEN Failed
        ELSE Ok([i \in 1 .. n |->
                    (ct[i] + 2 * ByteValues - ks - i) % ByteValues])

\* config.Encrypt under the key the process holds; nonce is what rand.Reader
\* yields
EncryptWith(key, plaintext, nonce) ==
    IF ~NewCipher(key) THEN Failed
    ELSE Ok(HexEncodeToString(GcmSeal(nonce, key, nonce, plaintext)))

\* config.Decrypt under the key the process holds
DecryptWith(key, ciphertext) ==
    LET data == HexDecodeString(ciphertext)
    IN  IF ~data.ok THEN Failed
        ELSE IF ~NewCipher(key) THEN Failed
        ELSE IF Len(data.val) < GcmNonceSize THEN Failed
        ELSE GcmOpen(key, SubSeq(data.val, 1, GcmNonceSize),
                     SubSeq(data.val, GcmNonceSize + 1, Len(data.val)))

\* ------------------------------------------------------ persisted store
IdsOf(rows) == {r.id : r \in rows}

\* a lookup that never finds the row
GetContainerFoundMissing(cname) == FALSE

GetContainerFound(cname) == \E c \in containers : c.name = cname

\* Foreign keys are declared ON DELETE CASCADE, but the connection is opened
\* without PRAGMA foreign_keys, so SQLite does not enforce them.
ForeignKeysEnforced == FALSE

\* a DELETE without its WHERE clause
DeleteContainerRowsUnfiltered(id) ==
    [containers |-> {}, users |-> users, events |-> events]

DeleteContainerRows(id) ==
    [containers |-> {c \in containers : c.id # id},
     users |-> IF ForeignKeysEnforced
               THEN {u \in users : u.container_id # id} ELSE users,
     events |-> IF ForeignKeysEnforced
                THEN SelectSeq(events, LAMBDA e : e.container_id # id)
                ELSE events]

Event(cid, type) == [container_id |-> cid, event_type |-> type]

GetDefaultUser(cid) == {u \in users : u.container_id = cid /\ u.is_default}

\* a query that filters on the expiry alone
GetExpiredContainersAnyStatus == {c \in containers : c.expires_at < now}

\* GetExpiredContainers: expires_at < now and status neither stopped nor expired
GetExpiredContainers ==
    {c \in containers :
        c.expires_at < now /\ c.status # "stopped" /\ c.status # "expired"}

\* ListContainers: every row whose status is not expired
ListContainers == {c \in containers : c.status # "expired"}

\* -------------------------------------------------------------- runtime
EmptyID == 0

ContainerExists(id) == \E r \in runtime : r.id = id

\* IsPortAvailable: no container the daemon lists publishes the port; the
\* port is compared as a uint16
PortSpace == 65536

IsPortAvailable(port) ==
    \A r \in runtime : ~(r.running /\ r.port = port % PortSpace)

\* a probe that also tries the port after the hundredth
FindAvailablePortInclusive(start) ==
    LET free == {q \in start .. (start + maxAttempts) : IsPortAvailable(q)}
    IN  IF free = {} THEN NoPort
        ELSE CHOOSE q \in free : \A x \in free : q <= x

\* FindAvailablePort: first free port of start .. start+maxAttempts-1
FindAvailablePort(start) ==
    LET free == {q \in start .. (start + maxAttempts - 1) : IsPortAvailable(q)}
    IN  IF free = {} THEN NoPort
        ELSE CHOOSE q \in free : \A x \in free : q <= x

VolumePathOf(name) == VolumesDir \o "/" \o name

\* createMount: the host directory bound into the container, "" for none
MountSource(vtype, vpath) ==
    IF vtype = "" \/ vpath = "" THEN ""
    ELSE IF vtype = "bind" THEN vpath
    ELSE VolumePathOf(vpath)

\* The accounts of the database engine inside a container, as pairs of name
\* and password: the image creates the one its environment names.
InitialAccounts(username, password) ==
    IF username = "" THEN {} ELSE {<<username, password>>}

\* docker.CreateContainer: pull, create, start.  fault names the daemon call
\* that fails; the daemon also refuses a name already in use and refuses to
\* start a container whose host port another running container publishes.
DockerCreate(t, n, username, password, port, vtype, vpath, fault) ==
    LET inst == [id |-> nextRid, name |-> containerPrefix \o n,
                 image |-> GetImage(t, ""), port |-> port,
                 mount |-> MountSource(vtype, vpath),
                 username |-> username, password |-> password,
                 accounts |-> InitialAccounts(username, password),
                 running |-> TRUE]
        nameClash == \E r \in runtime : r.name = inst.name
        portClash == \E r \in runtime : r.running /\ r.port = port
    IN  IF fault = "pull" \/ fault = "create" \/ nameClash
        THEN [ok |-> FALSE, id |-> EmptyID, runtime |-> runtime,
              nextRid |-> nextRid]
        ELSE IF fault = "start" \/ portClash
        THEN [ok |-> FALSE, id |-> EmptyID,
              runtime |-> runtime \cup {[inst EXCEPT !.running = FALSE]},
              nextRid |-> nextRid + 1]
        ELSE [ok |-> TRUE, id |-> inst.id, runtime |-> runtime \cup {inst},
              nextRid |-> nextRid + 1]

\* a failed record write that leaves the new container where it is
CompensateNothing(dc) == dc.runtime

\* runStart line 313 / runRestore: docker.RemoveContainer, forced, of the
\* container just created, after its record could not be written
Compensate(dc) == {r \in dc.runtime : r.id # dc.id}

\* the runtime instance a record points at is there
Present(c) == c.container_id # EmptyID /\ ContainerExists(c.container_id)

\* ---------------------------------------------------- command outcomes
\* The state a handler leaves behind, as a record; Same is "nothing changed".
\* execd tells whether a command was executed inside a container.
Same ==
    [containers |-> containers, users |-> users, events |-> events,
     nextId |-> nextId, nextUid |-> nextUid, runtime |-> runtime,
     nextRid |-> nextRid, dockerVols |-> dockerVols, dirs |-> dirs,
     err |-> "none", warns |-> {}, execd |-> FALSE]

Fail(o, why) == [o EXCEPT !.err = why]

Idle(op) ==
    [op |-> op, name |-> "", ok |-> TRUE, err |-> "none", warns |-> {},
     present |-> FALSE, hours |-> 0, port |-> NoPort, execd |-> FALSE]

CommitWith(o, op, n, present, hours, port) ==
    /\ o.nextId <= MaxRecords + 1
    /\ o.nextRid <= MaxRuntime + 1
    /\ o.nextUid <= MaxUsers + 1
    /\ Len(o.events) <= MaxEvents
    /\ containers' = o.containers
    /\ users' = o.users
    /\ events' = o.events
    /\ nextId' = o.nextId
    /\ nextUid' = o.nextUid
    /\ runtime' = o.runtime
    /\ nextRid' = o.nextRid
    /\ dockerVols' = o.dockerVols
    /\ dirs' = o.dirs
    /\ last' = [op |-> op, name |-> n, ok |-> (o.err = "none"),
                err |-> o.err, warns |-> o.warns, present |-> present,
                hours |-> hours, port |-> port, execd |-> o.execd]
    /\ UNCHANGED <<keyVars, libVars>>

Commit(o, op, n, present, hours) ==
    CommitWith(o, op, n, present, hours, NoPort)

\* ------------------------------------------------------- mkdb start
\* a resolution that looks for a substitute when the explicit port is taken
ResolvePortSubstitutes(t, p) ==
    IF p = NoPort
    THEN IF IsPortAvailable(GetDefaultPort(t)) THEN GetDefaultPort(t)
         ELSE FindAvailablePort(GetDefaultPort(t))
    ELSE IF IsPortAvailable(p) THEN p ELSE FindAvailablePort(p)

\* a resolution that never tries the default port itself
ResolvePortSkipsDefault(t, p) ==
    IF p = NoPort THEN FindAvailablePort(GetDefaultPort(t) + 1)
    ELSE IF IsPortAvailable(p) THEN p ELSE NoPort

\* runStart lines 123-153: the default port, or the next free one when it is
\* taken; an explicit port must be free.  NoPort means the command fails.
ResolvePort(t, p) ==
    IF p = NoPort
    THEN IF IsPortAvailable(GetDefaultPort(t)) THEN GetDefaultPort(t)
         ELSE FindAvailablePort(GetDefaultPort(t))
    ELSE IF IsPortAvailable(p) THEN p ELSE NoPort

\* runStart lines 155-234
VolumeType(vol) ==
    IF vol = "none" THEN "none" ELSE IF vol = "named" THEN "named" ELSE "bind"

VolumeRef(vol, n) ==
    IF vol = "none" THEN "" ELSE IF vol = "named" THEN n ELSE vol

VolumeDirs(vol, n) ==
    IF vol = "none" THEN {} ELSE IF vol = "named" THEN {VolumePathOf(n)} ELSE {vol}

\* runStart lines 236-270
StartUsername(auth) == IF auth = "auth" THEN DefaultUsername ELSE ""

\* a start that hands out the well-known default password
StartPasswordFixed(auth, gen) == IF auth = "auth" THEN DefaultPassword ELSE ""

StartPassword(auth, gen) == IF auth = "auth" THEN gen ELSE ""

\* runStart lines 317-324: the hash stays empty only under the --no-auth flag
StartPasswordHash(auth, password, nonce) ==
    IF auth = "flag_noauth" THEN EmptyHash ELSE Encrypt(password, nonce)

StartResult(n, t, ver, p, vol, auth, ttl, gen, nonce, fault, sf) ==
    LET cname == containerPrefix \o n
        hours == IF ttl = 0 THEN DefaultTTL ELSE ttl
        version == IF ver = "" THEN GetImage(t, ver)[2] ELSE ver
        port == ResolvePort(t, p)
        vtype == VolumeType(vol)
        vpath == VolumeRef(vol, n)
        username == StartUsername(auth)
        password == StartPassword(auth, gen)
        dc == DockerCreate(t, n, username, password, port, vtype, vpath, fault)
        rec == [id |-> nextId, name |-> cname, display_name |-> n,
                type |-> t, version |-> version, container_id |-> dc.id,
                port |-> port, status |-> "running", created_at |-> now,
                expires_at |-> now + hours, volume_type |-> vtype,
                volume_path |-> vpath]
        user == [id |-> nextUid, container_id |-> rec.id,
                 username |-> username,
                 password_hash |-> StartPasswordHash(auth, password, nonce),
                 is_default |-> TRUE]
        withDirs == [Same EXCEPT !.dirs = dirs \cup VolumeDirs(vol, n)]
        created == [withDirs EXCEPT !.runtime = dc.runtime,
                                    !.nextRid = dc.nextRid]
        stored == [created EXCEPT !.containers = containers \cup {rec},
                                  !.nextId = nextId + 1]
        withUser == [stored EXCEPT !.users = users \cup {user},
                                   !.nextUid = nextUid + 1]
    IN  IF GetContainerFound(cname) THEN Fail(Same, "exists")
        ELSE IF port = NoPort THEN Fail(Same, "port")
        ELSE IF ~dc.ok THEN Fail(created, "runtime")
        ELSE IF "container" \in sf
        THEN Fail([withDirs EXCEPT !.runtime = Compensate(dc),
                                   !.nextRid = dc.nextRid], "store")
        ELSE IF "user" \in sf THEN Fail(stored, "store")
        ELSE IF "event" \in sf THEN withUser
        ELSE [withUser EXCEPT !.events = Append(events, Event(rec.id, "created"))]

Create(n, t, ver, p, vol, auth, ttl, gen, nonce, fault, sf) ==
    /\ pc = "idle"
    /\ CommitWith(StartResult(n, t, ver, p, vol, auth, ttl, gen, nonce, fault,
                              sf),
                  "start", n, FALSE, ttl, p)
    /\ UNCHANGED <<now, pc, work>>

\* -------------------------------------------------------- mkdb stop
\* an UPDATE that leaves the container_id column out
UpdateContainerKeepsId(rows, c) ==
    {IF r.id = c.id
     THEN [r EXCEPT !.status = c.status, !.expires_at = c.expires_at]
     ELSE r : r \in rows}

\* an UPDATE that also sets created_at to the time of the update
UpdateContainerStampsCreated(rows, c) ==
    {IF r.id = c.id
     THEN [r EXCEPT !.container_id = c.container_id, !.status = c.status,
                    !.expires_at = c.expires_at, !.created_at = now]
     ELSE r : r \in rows}

\* UpdateContainer: SET container_id, status, expires_at WHERE id
UpdateContainer(rows, c) ==
    {IF r.id = c.id
     THEN [r EXCEPT !.container_id = c.container_id, !.status = c.status,
                    !.expires_at = c.expires_at]
     ELSE r : r \in rows}

\* docker.StopContainer / docker.RemoveContainer on the daemon's containers
StopInstance(rt, id) ==
    {IF r.id = id THEN [r EXCEPT !.running = FALSE] ELSE r : r \in rt}

RemoveInstance(rt, id) == {r \in rt : r.id # id}

\* a stop that records nothing when the daemon no longer has the container
StopResultOnlyIfPresent(c, fault, sf) ==
    LET present == Present(c)
        removed == [Same EXCEPT !.runtime = RemoveInstance(runtime, c.container_id)]
        updated == [removed EXCEPT !.containers =
                       UpdateContainer(containers, [c EXCEPT !.status = "stopped"])]
    IN  IF ~present THEN Same
        ELSE IF fault # "none" THEN Fail(Same, "runtime")
        ELSE [updated EXCEPT !.events = Append(events, Event(c.id, "stopped"))]

\* a stop that writes the record and the event before it calls the daemon
StopResultRecordsFirst(c, fault, sf) ==
    LET present == Present(c)
        stopped == [Same EXCEPT !.runtime = StopInstance(runtime, c.container_id)]
        removed == [Same EXCEPT !.runtime = RemoveInstance(runtime, c.container_id)]
        Recorded(o) ==
            [o EXCEPT !.containers =
                          UpdateContainer(containers, [c EXCEPT !.status = "stopped"]),
                      !.events = Append(events, Event(c.id, "stopped"))]
    IN  IF present /\ fault = "stop" THEN Fail(Recorded(Same), "runtime")
        ELSE IF present /\ fault = "remove" THEN Fail(Recorded(stopped), "runtime")
        ELSE Recorded(IF present THEN removed ELSE Same)

\* runStop lines 52-80; fault is the daemon call that fails
StopResult(c, fault, sf) ==
    LET present == Present(c)
        stopped == [Same EXCEPT !.runtime = StopInstance(runtime, c.container_id)]
        removed == [Same EXCEPT !.runtime = RemoveInstance(runtime, c.container_id)]
        gone == IF present THEN removed ELSE Same
        updated == [gone EXCEPT !.containers =
                       UpdateContainer(containers, [c EXCEPT !.status = "stopped"])]
    IN  IF present /\ fault = "stop" THEN Fail(Same, "runtime")
        ELSE IF present /\ fault = "remove" THEN Fail(stopped, "runtime")
        ELSE IF "update" \in sf THEN Fail(gone, "store")
        ELSE IF "event" \in sf THEN updated
        ELSE [updated EXCEPT !.events = Append(events, Event(c.id, "stopped"))]

Stop(c, fault, sf) ==
    /\ pc = "idle"
    /\ c \in ListContainers
    /\ c.status = "running"
    /\ Commit(StopResult(c, fault, sf), "stop", c.display_name, Present(c), 0)
    /\ UNCHANGED <<now, pc, work>>

\* ----------------------------------------------------- mkdb restart
\* docker.RestartContainer: the daemon stops and starts the container; the
\* start is refused when another running container publishes its host port
RestartInstance(rt, id) ==
    {IF r.id = id THEN [r EXCEPT !.running = TRUE] ELSE r : r \in rt}

RestartRefused(id) ==
    \E r \in runtime, x \in runtime :
        r.id = id /\ x.id # id /\ x.running /\ x.port = r.port

\* runRestart lines 45-98
RestartResult(c, fault, sf) ==
    LET present == Present(c)
        defaults == GetDefaultUser(c.id)
        user == CHOOSE u \in defaults : TRUE
        plain == Decrypt(user.password_hash)
        dc == DockerCreate(c.type, c.display_name, user.username, plain.val,
                           c.port, c.volume_type, c.volume_path, fault)
        inPlace == [Same EXCEPT !.runtime = RestartInstance(runtime, c.container_id)]
        recreated == [Same EXCEPT !.runtime = dc.runtime, !.nextRid = dc.nextRid]
        up == IF present THEN inPlace ELSE recreated
        newc == [c EXCEPT !.status = "running",
                          !.container_id = IF present THEN @ ELSE dc.id]
        updated == [up EXCEPT !.containers = UpdateContainer(containers, newc)]
    IN  IF present /\ (fault = "restart" \/ RestartRefused(c.container_id))
        THEN Fail(Same, "runtime")
        ELSE IF ~present /\ defaults = {} THEN Fail(Same, "user")
        ELSE IF ~present /\ ~plain.ok THEN Fail(Same, "decrypt")
        ELSE IF ~present /\ ~dc.ok THEN Fail(recreated, "runtime")
        ELSE IF "update" \in sf THEN Fail(up, "store")
        ELSE IF "event" \in sf THEN updated
        ELSE [updated EXCEPT !.events = Append(events, Event(c.id, "restarted"))]

Restart(c, fault, sf) ==
    /\ pc = "idle"
    /\ c \in ListContainers
    /\ Commit(RestartResult(c, fault, sf), "restart", c.display_name,
              Present(c), 0)
    /\ UNCHANGED <<now, pc, work>>

\* ------------------------------------------------------ mkdb extend
\* runExtend: the new expiry is the old one plus the hours
ExtendResult(c, hours, sf) ==
    LET newc == [c EXCEPT !.expires_at = c.expires_at + hours]
        updated == [Same EXCEPT !.containers = UpdateContainer(containers, newc)]
    IN  IF "update" \in sf THEN Fail(Same, "store")
        ELSE IF "event" \in sf THEN updated
        ELSE [updated EXCEPT !.events = Append(events, Event(c.id, "ttl_extended"))]

Extend(c, hours, sf) ==
    /\ pc = "idle"
    /\ c \in ListContainers
    /\ Commit(ExtendResult(c, hours, sf), "extend", c.display_name, FALSE,
              hours)
    /\ UNCHANGED <<now, pc, work>>

\* ---------------------------------------------------------- mkdb rm
\* The daemon's name filter matches every volume whose name contains it
NameMatches(volume, filter) ==
    \E i \in 1 .. (Len(volume) - Len(filter) + 1) :
        SubSeq(volume, i, i + Len(filter) - 1) = filter

\* docker.RemoveVolume: removes the Docker volumes the filter matches; it
\* touches no directory
RemoveVolume(vols, volumePath) ==
    {v \in vols : ~NameMatches(v, volumePath)}

\* a cleanup that gives up on the container once stopping it has failed
BestEffortCleanupStopsEarly(c, faults) ==
    LET present == Present(c)
        stopFailed == present /\ "stop" \in faults
        afterStop == IF present /\ ~stopFailed
                     THEN StopInstance(runtime, c.container_id) ELSE runtime
        afterRemove == IF present /\ ~stopFailed /\ "remove" \notin faults
                       THEN RemoveInstance(afterStop, c.container_id)
                       ELSE afterStop
        hasVolume == c.volume_path # ""
        afterVolume == IF hasVolume /\ "volume" \notin faults
                       THEN RemoveVolume(dockerVols, c.volume_path)
                       ELSE dockerVols
    IN  [Same EXCEPT !.runtime = afterRemove, !.dockerVols = afterVolume,
                     !.warns = {f \in faults :
                                   \/ f = "stop" /\ present
                                   \/ f = "remove" /\ present /\ ~stopFailed
                                   \/ f = "volume" /\ hasVolume}]

\* runRm lines 56-72 and cleanupContainer lines 288-305: stop, remove and
\* volume removal; each failure is a warning and the next step still runs
BestEffortCleanup(c, faults) ==
    LET present == Present(c)
        afterStop == IF present /\ "stop" \notin faults
                     THEN StopInstance(runtime, c.container_id) ELSE runtime
        afterRemove == IF present /\ "remove" \notin faults
                       THEN RemoveInstance(afterStop, c.container_id)
                       ELSE afterStop
        hasVolume == c.volume_path # ""
        afterVolume == IF hasVolume /\ "volume" \notin faults
                       THEN RemoveVolume(dockerVols, c.volume_path)
                       ELSE dockerVols
    IN  [Same EXCEPT !.runtime = afterRemove, !.dockerVols = afterVolume,
                     !.warns = {f \in faults :
                                   \/ f \in {"stop", "remove"} /\ present
                                   \/ f = "volume" /\ hasVolume}]

\* a Remove that writes no event before it deletes the row
RmEventResultSilent(c, faults, sf) == BestEffortCleanup(c, faults)

\* runRm lines 74-80: the deleted event is written before the row goes
RmEventResult(c, faults, sf) ==
    LET cleaned == BestEffortCleanup(c, faults)
    IN  IF "event" \in sf THEN cleaned
        ELSE [cleaned EXCEPT !.events = Append(events, Event(c.id, "deleted"))]

\* runRm lines 82-89 / cleanupContainer lines 318-324: DeleteContainer
DeleteResult(c, warns, sf) ==
    LET rows == DeleteContainerRows(c.id)
    IN  IF "delete" \in sf THEN Fail([Same EXCEPT !.warns = warns], "store")
        ELSE [Same EXCEPT !.containers = rows.containers, !.users = rows.users,
                          !.events = rows.events, !.warns = warns]

RmBegin(c, faults, sf) ==
    /\ pc = "idle"
    /\ c \in ListContainers
    /\ Commit(RmEventResult(c, faults, sf), "rm_cleanup", c.display_name,
              Present(c), 0)
    /\ pc' = "rm_delete"
    /\ work' = <<c>>
    /\ UNCHANGED now

RmDelete(sf) ==
    /\ pc = "rm_delete"
    /\ Commit(DeleteResult(Head(work), last.warns, sf), "rm",
              Head(work).display_name, last.present, 0)
    /\ pc' = "idle"
    /\ work' = <<>>
    /\ UNCHANGED now

\* ------------------------------------------------- expiration sweep
RECURSIVE ById(_)
ById(S) ==
    IF S = {} THEN <<>>
    ELSE LET c == CHOOSE x \in S : \A y \in S : x.id <= y.id
         IN  <<c>> \o ById(S \ {c})

\* extendContainer lines 252-283
ExtendedExpiry(c, hours) ==
    IF now > c.expires_at THEN now + hours ELSE c.expires_at + hours

RECURSIVE ExtendAll(_, _, _, _)
ExtendAll(o, cs, hours, sf) ==
    IF cs = <<>> THEN o
    ELSE LET c == Head(cs)
             newc == [c EXCEPT !.expires_at = ExtendedExpiry(c, hours)]
             updated == [o EXCEPT !.containers = UpdateContainer(o.containers, newc)]
             logged == [updated EXCEPT !.events =
                           Append(o.events, Event(c.id, "ttl_extended"))]
         IN  ExtendAll(IF "update" \in sf THEN o
                       ELSE IF "event" \in sf THEN updated ELSE logged,
                       Tail(cs), hours, sf)

\* cleanupContainer lines 288-316: the expired event is written before the
\* row goes
CleanupEventResult(c, faults, sf) ==
    LET cleaned == BestEffortCleanup(c, faults)
    IN  IF "event" \in sf THEN cleaned
        ELSE [cleaned EXCEPT !.events = Append(events, Event(c.id, "expired"))]

\* a sweep that purges the expired rows when nobody can be asked
RunSkippedPurges ==
    [Same EXCEPT !.containers = containers \ GetExpiredContainers]

\* Run lines 17-36 with no terminal attached: the sweep returns at once
RunSkipped == Same

SweepSkipped ==
    /\ pc = "idle"
    /\ GetExpiredContainers # {}
    /\ Commit(RunSkipped, "sweep_skipped", "", FALSE, 0)
    /\ UNCHANGED <<now, pc, work>>

\* a sweep that offers every expired record for removal, the extended too
SweepOffersExtended(toExtend, hours, toRemove, sf) ==
    /\ pc = "idle"
    /\ GetExpiredContainers # {}
    /\ toExtend \subseteq GetExpiredContainers
    /\ toRemove \subseteq GetExpiredContainers
    /\ Commit(ExtendAll(Same, ById(toExtend), hours, sf), "sweep", "", FALSE,
              IF toExtend = {} THEN 0 ELSE hours)
    /\ pc' = IF toRemove = {} THEN "idle" ELSE "sweep_clean"
    /\ work' = ById(toRemove)
    /\ UNCHANGED now

\* Run / RunInteractive with a terminal attached: the records chosen for
\* extension are extended, the rest may be chosen for removal
Sweep(toExtend, hours, toRemove, sf) ==
    /\ pc = "idle"
    /\ GetExpiredContainers # {}
    /\ toExtend \subseteq GetExpiredContainers
    /\ toRemove \subseteq (GetExpiredContainers \ toExtend)
    /\ Commit(ExtendAll(Same, ById(toExtend), hours, sf), "sweep", "", FALSE,
              IF toExtend = {} THEN 0 ELSE hours)
    /\ pc' = IF toRemove = {} THEN "idle" ELSE "sweep_clean"
    /\ work' = ById(toRemove)
    /\ UNCHANGED now

SweepClean(faults, sf) ==
    /\ pc = "sweep_clean"
    /\ Commit(CleanupEventResult(Head(work), faults, sf), "sweep_cleanup",
              Head(work).display_name, Present(Head(work)), 0)
    /\ pc' = "sweep_delete"
    /\ UNCHANGED <<now, work>>

SweepDelete(sf) ==
    /\ pc = "sweep_delete"
    /\ Commit(DeleteResult(Head(work), last.warns, sf), "expire",
              Head(work).display_name, last.present, 0)
    /\ pc' = IF Tail(work) = <<>> THEN "idle" ELSE "sweep_clean"
    /\ work' = Tail(work)
    /\ UNCHANGED now

\* ----------------------------------------------------- mkdb restore
\* a scan that reports every directory of the volumes root
ScanOrphanedAll == {v \in Names : VolumePathOf(v) \in dirs}

\* ScanOrphaned: the directories of the volumes root that no active record
\* names as its named volume
ScanOrphaned ==
    {v \in Names :
        /\ VolumePathOf(v) \in dirs
        /\ ~\E c \in ListContainers :
               c.volume_type = "named" /\ c.volume_path = v}

\* a restore that records the volume the way it mounted it, as a bind path
RestoreResultAsMounted(v, t, ver, p, ttl, nonce, fault, sf) ==
    LET port == ResolvePort(t, p)
        dc == DockerCreate(t, v, DefaultUsername, DefaultPassword, port,
                           "bind", VolumePathOf(v), fault)
        rec == [id |-> nextId, name |-> containerPrefix \o v,
                display_name |-> v, type |-> t, version |-> ver,
                container_id |-> dc.id, port |-> port, status |-> "running",
                created_at |-> now, expires_at |-> now + ttl,
                volume_type |-> "bind", volume_path |-> VolumePathOf(v)]
        user == [id |-> nextUid, container_id |-> rec.id,
                 username |-> DefaultUsername,
                 password_hash |-> Encrypt(DefaultPassword, nonce),
                 is_default |-> TRUE]
        created == [Same EXCEPT !.runtime = dc.runtime, !.nextRid = dc.nextRid]
    IN  IF GetContainerFound(rec.name) THEN Fail(Same, "exists")
        ELSE IF port = NoPort THEN Fail(Same, "port")
        ELSE IF ~dc.ok THEN Fail(created, "runtime")
        ELSE [created EXCEPT !.containers = containers \cup {rec},
                             !.nextId = nextId + 1,
                             !.users = users \cup {user},
                             !.nextUid = nextUid + 1,
                             !.events = Append(events, Event(rec.id, "restored"))]

\* runRestore lines 59-191
RestoreResult(v, t, ver, p, ttl, nonce, fault, sf) ==
    LET cname == containerPrefix \o v
        port == ResolvePort(t, p)
        dc == DockerCreate(t, v, DefaultUsername, DefaultPassword, port,
                           "bind", VolumePathOf(v), fault)
        rec == [id |-> nextId, name |-> cname, display_name |-> v,
                type |-> t, version |-> ver, container_id |-> dc.id,
                port |-> port, status |-> "running", created_at |-> now,
                expires_at |-> now + ttl, volume_type |-> "named",
                volume_path |-> v]
        user == [id |-> nextUid, container_id |-> rec.id,
                 username |-> DefaultUsername,
                 password_hash |-> Encrypt(DefaultPassword, nonce),
                 is_default |-> TRUE]
        created == [Same EXCEPT !.runtime = dc.runtime, !.nextRid = dc.nextRid]
        stored == [created EXCEPT !.containers = containers \cup {rec},
                                  !.nextId = nextId + 1]
        withUser == [stored EXCEPT !.users = users \cup {user},
                                   !.nextUid = nextUid + 1]
    IN  IF GetContainerFound(cname) THEN Fail(Same, "exists")
        ELSE IF port = NoPort THEN Fail(Same, "port")
        ELSE IF ~dc.ok THEN Fail(created, "runtime")
        ELSE IF "container" \in sf
        THEN Fail([Same EXCEPT !.runtime = Compensate(dc),
                               !.nextRid = dc.nextRid], "store")
        ELSE IF "user" \in sf THEN Fail(stored, "store")
        ELSE IF "event" \in sf THEN withUser
        ELSE [withUser EXCEPT !.events = Append(events, Event(rec.id, "restored"))]

Restore(v, t, ver, p, ttl, nonce, fault, sf) ==
    /\ pc = "idle"
    /\ v \in ScanOrphaned
    /\ CommitWith(RestoreResult(v, t, ver, p, ttl, nonce, fault, sf),
                  "restore", v, FALSE, ttl, p)
    /\ UNCHANGED <<now, pc, work>>

\* ------------------------------------- mkdb user / mkdb creds rotate
\* an adapter set in which every adapter has user commands
HasUserCommandsAlways(t) == TRUE

\* CreateUserCommand / DeleteUserCommand / RotatePasswordCommand: the Redis
\* adapter returns no command, the PostgreSQL and MySQL adapters return one
HasUserCommands(t) == t # "redis"

\* ExecInContainer: the daemon runs a command only in a container it has and
\* that is running
CanExec(cid) == \E r \in runtime : r.id = cid /\ r.running

\* the accounts of the engine in container cid
AccountsOf(cid) == UNION {r.accounts : r \in {x \in runtime : x.id = cid}}

HasAccount(cid, username) == \E a \in AccountsOf(cid) : a[1] = username

WithAccounts(cid, accts) ==
    {IF r.id = cid THEN [r EXCEPT !.accounts = accts] ELSE r : r \in runtime}

\* the outcome of a command run inside the container: fault "exec" is a
\* command that exits with a failure, refused is the engine refusing it
ExecOutcome(cid, fault, refused, after) ==
    IF ~CanExec(cid) THEN [err |-> "runtime", execd |-> FALSE, runtime |-> runtime]
    ELSE IF fault = "exec" \/ refused
    THEN [err |-> "runtime", execd |-> TRUE, runtime |-> runtime]
    ELSE [err |-> "none", execd |-> TRUE, runtime |-> after]

Unsupported == [err |-> "unsupported", execd |-> FALSE, runtime |-> runtime]

\* docker.CreateUser: CREATE USER, refused for a name the engine has
DockerCreateUser(cid, t, username, password, fault) ==
    LET added == AccountsOf(cid) \cup {<<username, password>>}
    IN  IF ~HasUserCommands(t) THEN Unsupported
        ELSE ExecOutcome(cid, fault, HasAccount(cid, username),
                         WithAccounts(cid, added))

\* docker.DeleteUser: DROP USER IF EXISTS
DockerDeleteUser(cid, t, username, fault) ==
    LET dropped == {a \in AccountsOf(cid) : a[1] # username}
    IN  IF ~HasUserCommands(t) THEN Unsupported
        ELSE ExecOutcome(cid, fault, FALSE, WithAccounts(cid, dropped))

\* docker.RotatePassword: ALTER USER, refused for a name the engine lacks
DockerRotatePassword(cid, t, username, newPassword, fault) ==
    LET altered ==
            {IF a[1] = username THEN <<username, newPassword>> ELSE a :
                a \in AccountsOf(cid)}
    IN  IF ~HasUserCommands(t) THEN Unsupported
        ELSE ExecOutcome(cid, fault, ~HasAccount(cid, username),
                         WithAccounts(cid, altered))

\* the handler's state after the call into the container
AfterExec(x) ==
    [Same EXCEPT !.runtime = x.runtime, !.execd = x.execd, !.err = x.err]

\* users has UNIQUE(container_id, username)
UsernameTaken(cid, username) ==
    \E u \in users : u.container_id = cid /\ u.username = username

\* a user create that does not look at the result of the store write
UserCreateResultIgnoresStore(c, username, gen, nonce, fault, sf) ==
    LET x == DockerCreateUser(c.container_id, c.type, username, gen, fault)
        user == [id |-> nextUid, container_id |-> c.id, username |-> username,
                 password_hash |-> Encrypt(gen, nonce), is_default |-> FALSE]
    IN  IF c.status # "running" THEN Fail(Same, "not_running")
        ELSE IF username = "" THEN Fail(Same, "username")
        ELSE IF x.err # "none" THEN AfterExec(x)
        ELSE IF "user" \in sf \/ UsernameTaken(c.id, username)
        THEN AfterExec(x)
        ELSE [AfterExec(x) EXCEPT !.users = users \cup {user},
                                  !.nextUid = nextUid + 1]

\* runUserCreate lines 53-128
UserCreateResult(c, username, gen, nonce, fault, sf) ==
    LET x == DockerCreateUser(c.container_id, c.type, username, gen, fault)
        user == [id |-> nextUid, container_id |-> c.id, username |-> username,
                 password_hash |-> Encrypt(gen, nonce), is_default |-> FALSE]
    IN  IF c.status # "running" THEN Fail(Same, "not_running")
        ELSE IF username = "" THEN Fail(Same, "username")
        ELSE IF x.err # "none" THEN AfterExec(x)
        ELSE IF "user" \in sf \/ UsernameTaken(c.id, username)
        THEN Fail(AfterExec(x), "store")
        ELSE [AfterExec(x) EXCEPT !.users = users \cup {user},
                                  !.nextUid = nextUid + 1]

UserCreate(c, username, gen, nonce, fault, sf) ==
    /\ pc = "idle"
    /\ c \in containers
    /\ Commit(UserCreateResult(c, username, gen, nonce, fault, sf),
              "user_create", c.display_name, Present(c), 0)
    /\ UNCHANGED <<now, pc, work>>

\* runUserDelete lines 150-230, for a user picked among the non-default ones
UserDeleteResult(c, u, fault, sf) ==
    LET x == DockerDeleteUser(c.container_id, c.type, u.username, fault)
    IN  IF c.status # "running" THEN Fail(Same, "not_running")
        ELSE IF x.err # "none" THEN AfterExec(x)
        ELSE IF "user_delete" \in sf THEN Fail(AfterExec(x), "store")
        ELSE [AfterExec(x) EXCEPT !.users = {r \in users : r.id # u.id}]

UserDelete(c, u, fault, sf) ==
    /\ pc = "idle"
    /\ c \in containers
    /\ u \in users
    /\ u.container_id = c.id
    /\ ~u.is_default
    /\ Commit(UserDeleteResult(c, u, fault, sf), "user_delete",
              c.display_name, Present(c), 0)
    /\ UNCHANGED <<now, pc, work>>

\* UpdateUser: SET password_hash WHERE id
UpdateUser(rows, u) ==
    {IF r.id = u.id THEN [r EXCEPT !.password_hash = u.password_hash] ELSE r :
        r \in rows}

\* runCredsRotate lines 105-159
CredsRotateResult(c, gen, nonce, fault, sf) ==
    LET defaults == GetDefaultUser(c.id)
        user == CHOOSE u \in defaults : TRUE
        x == DockerRotatePassword(c.container_id, c.type, user.username, gen,
                                  fault)
        newu == [user EXCEPT !.password_hash = Encrypt(gen, nonce)]
    IN  IF defaults = {} THEN Fail(Same, "user")
        ELSE IF x.err # "none" THEN AfterExec(x)
        ELSE IF "user_update" \in sf THEN Fail(AfterExec(x), "store")
        ELSE [AfterExec(x) EXCEPT !.users = UpdateUser(users, newu)]

CredsRotate(c, gen, nonce, fault, sf) ==
    /\ pc = "idle"
    /\ c \in ListContainers
    /\ c.status = "running"
    /\ Commit(CredsRotateResult(c, gen, nonce, fault, sf), "creds_rotate",
              c.display_name, Present(c), 0)
    /\ UNCHANGED <<now, pc, work>>

\* ------------------------------------------------ the encryption key
Invocations == {1, 2}
MaxStarts == 3
MaxStored == 1
NoKey == <<>>
NoFile == [exists |-> FALSE, data |-> <<>>]

InitKeys ==
    /\ keyFile = NoFile
    /\ kpc = [p \in Invocations |-> "down"]
    /\ encryptionKey = [p \in Invocations |-> NoKey]
    /\ starts = 0
    /\ vault = {}
    /\ decrypted = [by |-> 0, epoch |-> 0, plain |-> <<>>, result |-> Failed]

\* an initialisation that makes a new key at every start
InitEncryptionKeyAlwaysNew(fresh) ==
    [ok |-> TRUE, key |-> fresh,
     file |-> [exists |-> TRUE, data |-> HexEncodeToString(fresh)]]

\* initEncryptionKey: a missing key file is written with a new key, an
\* existing one is read and decoded; fresh is what rand.Read yields
InitEncryptionKey(fresh) ==
    IF ~keyFile.exists
    THEN [ok |-> TRUE, key |-> fresh,
          file |-> [exists |-> TRUE, data |-> HexEncodeToString(fresh)]]
    ELSE LET key == HexDecodeString(keyFile.data)
         IN  [ok |-> key.ok, key |-> key.val, file |-> keyFile]

\* config.Initialize of one invocation, no other invocation running
ProcessStart(p, fresh) ==
    /\ \A q \in Invocations : kpc[q] = "down"
    /\ starts < MaxStarts
    /\ LET init == InitEncryptionKey(fresh)
       IN  /\ keyFile' = init.file
           /\ kpc' = [kpc EXCEPT ![p] = IF init.ok THEN "up" ELSE "down"]
           /\ encryptionKey' = [encryptionKey EXCEPT ![p] = init.key]
    /\ starts' = starts + 1
    /\ UNCHANGED <<vault, decrypted>>
    /\ UNCHANGED <<mainVars, libVars>>

\* a command stores a credential: config.Encrypt, then the store write
StoreCredential(p, plaintext, nonce) ==
    /\ kpc[p] = "up"
    /\ Cardinality(vault) < MaxStored
    /\ LET sealed == EncryptWith(encryptionKey[p], plaintext, nonce)
       IN  /\ sealed.ok
           /\ vault' = vault \cup {[plain |-> plaintext, cipher |-> sealed.val,
                                     epoch |-> starts]}
    /\ UNCHANGED <<keyFile, kpc, encryptionKey, starts, decrypted>>
    /\ UNCHANGED <<mainVars, libVars>>

\* a command reads a credential back: the store read, then config.Decrypt
ReadCredential(p, s) ==
    /\ kpc[p] = "up"
    /\ s \in vault
    /\ decrypted' = [by |-> starts, epoch |-> s.epoch, plain |-> s.plain,
                     result |-> DecryptWith(encryptionKey[p], s.cipher)]
    /\ UNCHANGED <<keyFile, kpc, encryptionKey, starts, vault>>
    /\ UNCHANGED <<mainVars, libVars>>

\* the invocation ends; its memory is gone
ProcessExit(p) ==
    /\ kpc[p] = "up"
    /\ kpc' = [kpc EXCEPT ![p] = "down"]
    /\ encryptionKey' = [encryptionKey EXCEPT ![p] = NoKey]
    /\ UNCHANGED <<keyFile, starts, vault, decrypted>>
    /\ UNCHANGED <<mainVars, libVars>>

\* initEncryptionKey of invocations that run at the same time, step by step.
\* os.Stat: the invocation learns whether the key file is there
KeyStat(p) ==
    /\ kpc[p] = "down"
    /\ starts < MaxStarts
    /\ kpc' = [kpc EXCEPT ![p] = IF keyFile.exists THEN "found" ELSE "missing"]
    /\ starts' = starts + 1
    /\ UNCHANGED <<keyFile, encryptionKey, vault, decrypted>>
    /\ UNCHANGED <<mainVars, libVars>>

\* rand.Read, then os.WriteFile opens the file, creating or truncating it;
\* until the invocation is up, encryptionKey[p] is its local variable key
KeyOpen(p, fresh) ==
    /\ kpc[p] = "missing"
    /\ keyFile' = [exists |-> TRUE, data |-> <<>>]
    /\ encryptionKey' = [encryptionKey EXCEPT ![p] = fresh]
    /\ kpc' = [kpc EXCEPT ![p] = "writing"]
    /\ UNCHANGED <<starts, vault, decrypted>>
    /\ UNCHANGED <<mainVars, libVars>>

\* os.WriteFile writes the hex form of the key; the key is now in use
KeyWrite(p) ==
    /\ kpc[p] = "writing"
    /\ keyFile' = [exists |-> TRUE,
                   data |-> HexEncodeToString(encryptionKey[p])]
    /\ kpc' = [kpc EXCEPT ![p] = "up"]
    /\ UNCHANGED <<encryptionKey, starts, vault, decrypted>>
    /\ UNCHANGED <<mainVars, libVars>>

\* os.ReadFile and hex.DecodeString of what the file holds at this moment
KeyLoad(p) ==
    LET key == HexDecodeString(keyFile.data)
    IN  /\ kpc[p] = "found"
        /\ kpc' = [kpc EXCEPT ![p] = IF key.ok THEN "up" ELSE "down"]
        /\ encryptionKey' = [encryptionKey EXCEPT ![p] =
                                 IF key.ok THEN key.val ELSE NoKey]
        /\ UNCHANGED <<keyFile, starts, vault, decrypted>>
        /\ UNCHANGED <<mainVars, libVars>>

\* ------------------------------------------- concurrent invocations
\* Two mkdb processes work on the same store and the same daemon; nothing
\* but the store and the daemon orders them.  A start or a restore is three
\* steps: the lookups, the creation in the daemon, the writes to the store.
Procs == {1, 2}

NoFlight ==
    [pc |-> "idle", kind |-> "none", n |-> "", t |-> "", port |-> NoPort,
     rid |-> EmptyID]

\* an insert that the store never refuses
InsertViolatesUniqueNever(cname) == FALSE

\* containers.name is declared UNIQUE: a second row of the name is refused
InsertViolatesUnique(cname) == \E c \in containers : c.name = cname

FlightUsername(kind) == IF kind = "start" THEN "" ELSE DefaultUsername
FlightPassword(kind) == IF kind = "start" THEN "" ELSE DefaultPassword
FlightVolumeType(kind) == IF kind = "start" THEN "none" ELSE "named"
FlightVolumePath(kind, n) == IF kind = "start" THEN "" ELSE n

\* runStart lines 115-153 / runRestore lines 89-125: the record of the name
\* is looked up and the port is resolved; a command that fails here has
\* changed nothing
FlightLookup(p, kind, n, t, pin) ==
    /\ inflight[p].pc = "idle"
    /\ kind = "restore" => n \in ScanOrphaned
    /\ ~GetContainerFound(containerPrefix \o n)
    /\ ResolvePort(t, pin) # NoPort
    /\ inflight' = [inflight EXCEPT ![p] =
                       [NoFlight EXCEPT !.pc = "checked", !.kind = kind,
                                        !.n = n, !.t = t,
                                        !.port = ResolvePort(t, pin)]]
    /\ UNCHANGED <<mainVars, keyVars, query, answer, listed, execCall>>

\* docker.CreateContainer of the invocation; a failure ends the command
FlightCreate(p, fault) ==
    LET f == inflight[p]
        dc == DockerCreate(f.t, f.n, FlightUsername(f.kind),
                           FlightPassword(f.kind), f.port,
                           IF f.kind = "start" THEN "none" ELSE "bind",
                           IF f.kind = "start" THEN "" ELSE VolumePathOf(f.n),
                           fault)
    IN  /\ f.pc = "checked"
        /\ dc.nextRid <= MaxRuntime + 1
        /\ runtime' = dc.runtime
        /\ nextRid' = dc.nextRid
        /\ inflight' = [inflight EXCEPT ![p] =
                           IF dc.ok THEN [f EXCEPT !.pc = "created",
                                                   !.rid = dc.id]
                           ELSE NoFlight]
        /\ UNCHANGED <<containers, users, events, nextId, nextUid, dockerVols,
                       dirs, now, pc, work, last>>
        /\ UNCHANGED <<keyVars, query, answer, listed, execCall>>

\* database.CreateContainer, CreateUser, CreateEvent of the invocation; a
\* refused container row makes it remove the container it created
FlightStore(p, nonce) ==
    LET f == inflight[p]
        cname == containerPrefix \o f.n
        rec == [id |-> nextId, name |-> cname, display_name |-> f.n,
                type |-> f.t,
                version |-> IF f.kind = "start" THEN GetImage(f.t, "")[2]
                            ELSE "latest",
                container_id |-> f.rid, port |-> f.port,
                status |-> "running", created_at |-> now,
                expires_at |-> now + DefaultTTL,
                volume_type |-> FlightVolumeType(f.kind),
                volume_path |-> FlightVolumePath(f.kind, f.n)]
        user == [id |-> nextUid, container_id |-> rec.id,
                 username |-> FlightUsername(f.kind),
                 password_hash |->
                     IF f.kind = "start" THEN EmptyHash
                     ELSE Encrypt(DefaultPassword, nonce),
                 is_default |-> TRUE]
        event == Event(rec.id, IF f.kind = "start" THEN "created"
                               ELSE "restored")
    IN  /\ f.pc = "created"
        /\ IF InsertViolatesUnique(cname)
           THEN /\ runtime' = Compensate([runtime |-> runtime, id |-> f.rid])
                /\ UNCHANGED <<containers, users, events, nextId, nextUid>>
           ELSE /\ nextId <= MaxRecords
                /\ nextUid <= MaxUsers
                /\ Len(events) < MaxEvents
                /\ containers' = containers \cup {rec}
                /\ nextId' = nextId + 1
                /\ users' = users \cup {user}
                /\ nextUid' = nextUid + 1
                /\ events' = Append(events, event)
                /\ UNCHANGED runtime
        /\ last' = [Idle(f.kind) EXCEPT
                        !.name = f.n,
                        !.ok = ~InsertViolatesUnique(cname),
                        !.err = IF InsertViolatesUnique(cname) THEN "store"
                                ELSE "none"]
        /\ inflight' = [inflight EXCEPT ![p] = NoFlight]
        /\ UNCHANGED <<nextRid, dockerVols, dirs, now, pc, work>>
        /\ UNCHANGED <<keyVars, query, answer, listed, execCall>>

\* ------------------------------------------------ the adapter registry
\* A type string is the sequence of its characters.
MaxCased == 3
MaxListCalls == 3

PostgresAdapter ==
    [name |-> <<"p", "o", "s", "t", "g", "r", "e", "s">>,
     aliases |-> << <<"p", "g">>,
                    <<"p", "o", "s", "t", "g", "r", "e", "s">>,
                    <<"p", "o", "s", "t", "g", "r", "e", "s", "q", "l">> >>]

MySQLAdapter ==
    [name |-> <<"m", "y", "s", "q", "l">>,
     aliases |-> << <<"m", "y", "s", "q", "l">>,
                    <<"m", "a", "r", "i", "a", "d", "b">> >>]

RedisAdapter ==
    [name |-> <<"r", "e", "d", "i", "s">>,
     aliases |-> << <<"r", "e", "d", "i", "s">> >>]

SmallLetters ==
    <<"a", "b", "c", "d", "e", "f", "g", "h", "i", "j", "k", "l", "m",
      "n", "o", "p", "q", "r", "s", "t", "u", "v", "w", "x", "y", "z">>

CapitalLetters ==
    <<"A", "B", "C", "D", "E", "F", "G", "H", "I", "J", "K", "L", "M",
      "N", "O", "P", "Q", "R", "S", "T", "U", "V", "W", "X", "Y", "Z">>

\* the characters strings.TrimSpace cuts off
AsciiSpace == {" ", "\t", "\n", "\r", "\f"}

ToLowerRune(ch) ==
    IF \E i \in DOMAIN CapitalLetters : CapitalLetters[i] = ch
    THEN SmallLetters[CHOOSE i \in DOMAIN CapitalLetters : CapitalLetters[i] = ch]
    ELSE ch

ToUpperRune(ch) ==
    IF \E i \in DOMAIN SmallLetters : SmallLetters[i] = ch
    THEN CapitalLetters[CHOOSE i \in DOMAIN SmallLetters : SmallLetters[i] = ch]
    ELSE ch

\* a lowering that leaves every character as it is
ToLowerAsIs(s) == s

\* strings.ToLower
ToLower(s) == [i \in DOMAIN s |-> ToLowerRune(s[i])]

\* strings.TrimSpace: leading and trailing white space is cut off
RECURSIVE TrimLeft(_)
TrimLeft(s) ==
    IF s # <<>> /\ Head(s) \in AsciiSpace THEN TrimLeft(Tail(s)) ELSE s

RECURSIVE TrimRight(_)
TrimRight(s) ==
    IF s # <<>> /\ s[Len(s)] \in AsciiSpace
    THEN TrimRight(SubSeq(s, 1, Len(s) - 1))
    ELSE s

TrimSpace(s) == TrimRight(TrimLeft(s))

EmptyRegistry == [adapters |-> <<>>, aliasToName |-> <<>>]

\* Registry.Register: the adapter under its name, every alias lowered
Register(r, adapter) ==
    LET lowered == {ToLower(adapter.aliases[i]) : i \in DOMAIN adapter.aliases}
    IN  [adapters |-> (adapter.name :> adapter) @@ r.adapters,
         aliasToName |->
             [a \in lowered |-> adapter.name] @@ r.aliasToName]

\* GetRegistry: the three default adapters, in the order of registration
GetRegistry ==
    Register(Register(Register(EmptyRegistry, PostgresAdapter), MySQLAdapter),
             RedisAdapter)

\* Registry.Get
Get(r, nameOrAlias) ==
    LET normalized == ToLower(TrimSpace(nameOrAlias))
    IN  IF normalized \in DOMAIN r.adapters
        THEN Ok(r.adapters[normalized])
        ELSE IF /\ normalized \in DOMAIN r.aliasToName
                /\ r.aliasToName[normalized] \in DOMAIN r.adapters
             THEN Ok(r.adapters[r.aliasToName[normalized]])
             ELSE Failed

\* Registry.NormalizeType
NormalizeType(r, dbType) ==
    LET adapter == Get(r, dbType)
    IN  IF ~adapter.ok THEN Failed ELSE Ok(adapter.val.name)

\* Registry.List: the names as the iteration over the map yields them; the
\* order of that iteration is not fixed and differs from call to call
List(r) ==
    LET names == DOMAIN r.adapters
    IN  {s \in [1 .. Cardinality(names) -> names] :
            \A i, j \in DOMAIN s : s[i] = s[j] => i = j}

NoAnswer == [op |-> "none", res |-> Failed]

\* --------------------------------------- commands inside a container
MaxPolls == 4
NoExec ==
    [fn |-> "none", cmd |-> "none", pc |-> "idle", polls |-> 0,
     err |-> "none", code |-> 0]

\* the callers: CreateUser, DeleteUser and RotatePassword go through
\* ExecInContainer, the version query through ExecCommand
ExecCallers ==
    {<<"ExecInContainer", "create_user">>, <<"ExecInContainer", "delete_user">>,
     <<"ExecInContainer", "rotate_password">>, <<"ExecCommand", "version">>}

\* what can fail before the waiting loop is entered
ExecSetupFaults(fn) ==
    IF fn = "ExecInContainer" THEN {"none", "create", "start"}
    ELSE {"none", "create", "attach", "read"}

\* what ContainerExecInspect can report
ExecInspections ==
    {[err |-> TRUE, running |-> FALSE, code |-> 0],
     [err |-> FALSE, running |-> TRUE, code |-> 0],
     [err |-> FALSE, running |-> FALSE, code |-> 0],
     [err |-> FALSE, running |-> FALSE, code |-> 1],
     [err |-> FALSE, running |-> FALSE, code |-> 2]}

\* ExecInContainer / ExecCommand up to the waiting loop
ExecSetup(fn, cmd, fault) ==
    /\ execCall.pc = "idle"
    /\ execCall' =
          IF fault # "none"
          THEN [NoExec EXCEPT !.fn = fn, !.cmd = cmd, !.pc = "returned",
                              !.err = fault]
          ELSE [NoExec EXCEPT !.fn = fn, !.cmd = cmd, !.pc = "inspect"]
    /\ UNCHANGED <<query, answer, listed>>
    /\ UNCHANGED <<mainVars, keyVars, inflight>>

\* one pass of the waiting loop up to its sleep: the inspection fails, or
\* the command has ended, or it is still running
ExecInspect(inspect) ==
    /\ execCall.pc = "inspect"
    /\ execCall' =
          IF inspect.err
          THEN [execCall EXCEPT !.pc = "returned", !.err = "inspect"]
          ELSE IF ~inspect.running
               THEN [execCall EXCEPT
                        !.pc = "returned", !.code = inspect.code,
                        !.err = IF inspect.code # 0 THEN "exit" ELSE "none"]
               ELSE [execCall EXCEPT !.pc = "sleep"]
    /\ UNCHANGED <<query, answer, listed>>
    /\ UNCHANGED <<mainVars, keyVars, inflight>>

\* time.Sleep(100 * time.Millisecond), then the loop starts over; passes
\* beyond MaxPolls are not told apart
ExecSleep ==
    /\ execCall.pc = "sleep"
    /\ execCall' =
          [execCall EXCEPT
              !.pc = "inspect",
              !.polls = IF @ < MaxPolls THEN @ + 1 ELSE @]
    /\ UNCHANGED <<query, answer, listed>>
    /\ UNCHANGED <<mainVars, keyVars, inflight>>

\* the caller has the result
ExecReturn ==
    /\ execCall.pc = "returned"
    /\ execCall' = NoExec
    /\ UNCHANGED <<query, answer, listed>>
    /\ UNCHANGED <<mainVars, keyVars, inflight>>

InitLib ==
    /\ query = <<>>
    /\ answer = NoAnswer
    /\ listed = <<>>
    /\ execCall = NoExec
    /\ inflight = [p \in Procs |-> NoFlight]

RegistryGet ==
    /\ answer' = [op |-> "get", res |-> Get(GetRegistry, query)]
    /\ UNCHANGED <<query, listed, execCall>>
    /\ UNCHANGED <<mainVars, keyVars, inflight>>

RegistryNormalizeType ==
    /\ answer' = [op |-> "normalize", res |-> NormalizeType(GetRegistry, query)]
    /\ UNCHANGED <<query, listed, execCall>>
    /\ UNCHANGED <<mainVars, keyVars, inflight>>

RegistryList ==
    /\ Len(listed) < MaxListCalls
    /\ \E names \in List(GetRegistry) : listed' = Append(listed, names)
    /\ UNCHANGED <<query, answer, execCall>>
    /\ UNCHANGED <<mainVars, keyVars, inflight>>

\* ------------------------------------------------------ environment
\* Someone removes a container behind mkdb's back (docker rm -f)
ExternalReap(r) ==
    /\ pc = "idle"
    /\ r \in runtime
    /\ runtime' = runtime \ {r}
    /\ last' = Idle("reap")
    /\ UNCHANGED <<containers, users, events, nextId, nextUid, nextRid,
                   dockerVols, dirs, now, pc, work>>
    /\ UNCHANGED <<keyVars, libVars>>

\* ------------------------------------------------------------- the clock
\* Time is read only against the timestamps of records, so the clock is
\* advanced only while the store holds one.
Tick ==
    /\ pc = "idle"
    /\ now < MaxTime
    /\ containers # {}
    /\ now' = now + 1
    /\ last' = Idle("tick")
    /\ UNCHANGED <<containers, users, events, nextId, nextUid, runtime,
                   nextRid, dockerVols, dirs, pc, work>>
    /\ UNCHANGED <<keyVars, libVars>>

\* ------------------------------------------------------- specification
Init ==
    /\ containers = {}
    /\ users = {}
    /\ events = <<>>
    /\ nextId = 1
    /\ nextUid = 1
    /\ runtime = {}
    /\ nextRid = 1
    /\ dockerVols = DockerVolumeNames
    /\ dirs = {}
    /\ now = 0
    /\ pc = "idle"
    /\ work = <<>>
    /\ last = Idle("none")
    /\ InitKeys
    /\ InitLib

CreateFaults == {"none", "pull", "create", "start"}
StopFaults == {"none", "stop", "remove"}
RestartFaults == {"none", "restart", "create", "start"}
CleanupFaults == SUBSET {"stop", "remove", "volume"}
RestoreVersions == {"latest"}

\* one mkdb command, or one step of a command that deletes records
Commands ==
    \/ \E n \in StartNames, t \in DBTypes, ver \in Versions, p \in PortInputs,
          prof \in StartProfiles, ttl \in TTLInputs,
          gen \in GeneratedPasswords, nonce \in Nonces,
          fault \in CreateFaults :
            Create(n, t, ver, p, prof[1], prof[2], ttl, gen, nonce, fault,
                   NoFaults)
    \/ \E c \in containers, fault \in StopFaults : Stop(c, fault, NoFaults)
    \/ \E c \in containers, fault \in RestartFaults : Restart(c, fault, NoFaults)
    \/ \E c \in containers, hours \in HoursInputs : Extend(c, hours, NoFaults)
    \/ \E c \in containers, faults \in CleanupFaults : RmBegin(c, faults, NoFaults)
    \/ RmDelete(NoFaults)
    \/ \E toExtend \in SUBSET containers, hours \in HoursInputs,
          toRemove \in SUBSET containers :
            Sweep(toExtend, hours, toRemove, NoFaults)
    \/ \E faults \in CleanupFaults : SweepClean(faults, NoFaults)
    \/ SweepDelete(NoFaults)
    \/ \E v \in Names, t \in DBTypes, ver \in RestoreVersions, p \in PortInputs,
          ttl \in TTLInputs, nonce \in Nonces, fault \in CreateFaults :
            Restore(v, t, ver, p, ttl, nonce, fault, NoFaults)

Next ==
    \/ Commands
    \/ \E r \in runtime : ExternalReap(r)
    \/ Tick

Spec == Init /\ [][Next]_vars

\* mkdb alone: nobody else touches the daemon's containers
NextUndisturbed ==
    \/ Commands
    \/ Tick

SpecUndisturbed == Init /\ [][NextUndisturbed]_vars

\* The commands with every TTL and hours value their flags accept, the
\* runtime and the store working, and sweeps that find no terminal.
TTLFlagInputs == {-1, 0, 1}
ExtendHoursInputs == {-1, 1}

NextExpiry ==
    \/ \E n \in StartNames, t \in DBTypes, ver \in Versions, p \in PortInputs,
          prof \in StartProfiles, ttl \in TTLFlagInputs,
          gen \in GeneratedPasswords, nonce \in Nonces :
            Create(n, t, ver, p, prof[1], prof[2], ttl, gen, nonce, "none",
                   NoFaults)
    \/ \E c \in containers, hours \in ExtendHoursInputs :
          Extend(c, hours, NoFaults)
    \/ \E c \in containers : RmBegin(c, {}, NoFaults)
    \/ RmDelete(NoFaults)
    \/ \E v \in Names, t \in DBTypes, ver \in RestoreVersions, p \in PortInputs,
          ttl \in TTLFlagInputs, nonce \in Nonces :
            Restore(v, t, ver, p, ttl, nonce, "none", NoFaults)
    \/ SweepSkipped
    \/ Tick

SpecExpiry == Init /\ [][NextExpiry]_vars

\* The commands on a daemon that also runs containers of other tools, which
\* publish host ports; two display names, explicit and default ports.
ForeignContainers(ports) ==
    {[id |-> 0 - q, name |-> "other", image |-> <<"other", "latest">>,
      port |-> q, mount |-> "", username |-> "", password |-> "",
      accounts |-> {}, running |-> TRUE] : q \in ports}

OccupiedChoices ==
    {{}, {5432}, {5432, 5433}, 5432 .. 5530, 5432 .. 5531,
     (5432 .. 5531) \ {5440}, 5433 .. 5532}

ExplicitPortInputs == {NoPort, 5432, 5433}

InitPorts ==
    /\ containers = {}
    /\ users = {}
    /\ events = <<>>
    /\ nextId = 1
    /\ nextUid = 1
    /\ runtime \in {ForeignContainers(ports) : ports \in OccupiedChoices}
    /\ nextRid = 1
    /\ dockerVols = DockerVolumeNames
    /\ dirs = {}
    /\ now = 0
    /\ pc = "idle"
    /\ work = <<>>
    /\ last = Idle("none")
    /\ InitKeys
    /\ InitLib

NextPorts ==
    \/ \E n \in Names, t \in DBTypes, ver \in Versions,
          p \in ExplicitPortInputs, ttl \in TTLInputs,
          gen \in GeneratedPasswords, nonce \in Nonces :
            Create(n, t, ver, p, "none", "flag_noauth", ttl, gen, nonce, "none",
                   NoFaults)
    \/ \E c \in containers : Stop(c, "none", NoFaults)
    \/ \E c \in containers : RmBegin(c, {}, NoFaults)
    \/ RmDelete(NoFaults)

SpecPorts == InitPorts /\ [][NextPorts]_vars

\* Invocations one after the other that store credentials and read them back.
FreshKeys ==
    {[i \in 1 .. KeySize |-> 17], [i \in 1 .. KeySize |-> (11 * i) % ByteValues]}
NonceInputs ==
    {[i \in 1 .. GcmNonceSize |-> 0],
     [i \in 1 .. GcmNonceSize |-> (250 + i) % ByteValues]}
PlaintextInputs == {<<>>, <<107, 51>>, <<255, 0, 15>>}

NextKeys ==
    \/ \E p \in Invocations, fresh \in FreshKeys : ProcessStart(p, fresh)
    \/ \E p \in Invocations, plaintext \in PlaintextInputs,
          nonce \in NonceInputs :
            StoreCredential(p, plaintext, nonce)
    \/ \E p \in Invocations, s \in vault : ReadCredential(p, s)
    \/ \E p \in Invocations : ProcessExit(p)

SpecKeys == Init /\ [][NextKeys]_vars

\* Create, stop, remove and restore with a store that refuses one kind of
\* write, the runtime working and the clock standing.
StoreFaultChoices ==
    {{}, {"container"}, {"user"}, {"event"}, {"update"}, {"delete"}}

NextFaults ==
    \/ \E n \in StartNames, t \in DBTypes, ver \in Versions, p \in PortInputs,
          ttl \in TTLInputs, gen \in GeneratedPasswords, nonce \in Nonces,
          sf \in StoreFaultChoices :
            Create(n, t, ver, p, "named", "auth", ttl, gen, nonce, "none", sf)
    \/ \E c \in containers, sf \in StoreFaultChoices : Stop(c, "none", sf)
    \/ \E c \in containers, sf \in StoreFaultChoices : RmBegin(c, {}, sf)
    \/ \E sf \in StoreFaultChoices : RmDelete(sf)
    \/ \E v \in Names, t \in DBTypes, ver \in RestoreVersions, p \in PortInputs,
          ttl \in TTLInputs, nonce \in Nonces, sf \in StoreFaultChoices :
            Restore(v, t, ver, p, ttl, nonce, "none", sf)

SpecFaults == Init /\ [][NextFaults]_vars

\* The user commands on PostgreSQL and Redis containers, with commands that
\* fail inside the container and user writes the store refuses.
UserDBTypes == {"postgres", "redis"}
UserAuthModes == {"auth", "flag_noauth"}
UsernameInputs == {"", "app"}
RotatedPasswords == {"Zq7Lw2Xc9VbN4mKj8HgF5dSa3PoI6uYt"}
ExecFaults == {"none", "exec"}
UserStoreFaults == {{}, {"user", "user_delete", "user_update"}}

NextUsers ==
    \/ \E n \in StartNames, t \in UserDBTypes, auth \in UserAuthModes,
          ttl \in TTLInputs, gen \in GeneratedPasswords, nonce \in Nonces :
            Create(n, t, "", NoPort, "none", auth, ttl, gen, nonce, "none",
                   NoFaults)
    \/ \E c \in containers : Stop(c, "none", NoFaults)
    \/ \E c \in containers, username \in UsernameInputs,
          gen \in RotatedPasswords, nonce \in Nonces, fault \in ExecFaults,
          sf \in UserStoreFaults :
            UserCreate(c, username, gen, nonce, fault, sf)
    \/ \E c \in containers, u \in users, fault \in ExecFaults,
          sf \in UserStoreFaults :
            UserDelete(c, u, fault, sf)
    \/ \E c \in containers, gen \in RotatedPasswords, nonce \in Nonces,
          fault \in ExecFaults, sf \in UserStoreFaults :
            CredsRotate(c, gen, nonce, fault, sf)
    \/ \E c \in containers : RmBegin(c, {}, NoFaults)
    \/ RmDelete(NoFaults)
    \/ \E r \in runtime : ExternalReap(r)

SpecUsers == Init /\ [][NextUsers]_vars

\* The registry is asked about type strings: every registered spelling in a
\* choice of letter case between white space, and strings that are none.
RegisteredSpellings ==
    UNION {{a.name} \cup {a.aliases[i] : i \in DOMAIN a.aliases} :
              a \in {PostgresAdapter, MySQLAdapter, RedisAdapter}}

Cased(word, capitals) ==
    [i \in DOMAIN word |->
        IF i \in capitals THEN ToUpperRune(word[i]) ELSE word[i]]

CaseChoices(word) == SUBSET (1 .. MaxCased) \cup {DOMAIN word}

LeftPads == {<<>>, <<" ">>, <<"\t", " ">>}
RightPads == {<<>>, <<"\n">>, <<" ", "\r">>}

OtherStrings ==
    {<<>>, <<"m", "o", "n", "g", "o", "d", "b">>, <<"p", " ", "g">>,
     <<"p", "g", "s">>, <<"r", "e", "d", "i">>, <<"p", "g", "-">>,
     <<"M", "y", " ", "S", "Q", "L">>, <<"s", "q", "l">>}

QueryInputs ==
    {l \o t \o r :
        l \in LeftPads, r \in RightPads,
        t \in OtherStrings \cup
              UNION {{Cased(w, cs) : cs \in CaseChoices(w)} :
                        w \in RegisteredSpellings}}

InitRegistry ==
    /\ containers = {}
    /\ users = {}
    /\ events = <<>>
    /\ nextId = 1
    /\ nextUid = 1
    /\ runtime = {}
    /\ nextRid = 1
    /\ dockerVols = DockerVolumeNames
    /\ dirs = {}
    /\ now = 0
    /\ pc = "idle"
    /\ work = <<>>
    /\ last = Idle("none")
    /\ InitKeys
    /\ query \in QueryInputs
    /\ answer = NoAnswer
    /\ listed = <<>>
    /\ execCall = NoExec
    /\ inflight = [p \in Procs |-> NoFlight]

NextRegistry ==
    \/ RegistryGet
    \/ RegistryNormalizeType

SpecRegistry == InitRegistry /\ [][NextRegistry]_vars

NextList == RegistryList

SpecList == Init /\ [][NextList]_vars

NextExec ==
    \/ \E call \in ExecCallers :
          \E fault \in ExecSetupFaults(call[1]) :
              ExecSetup(call[1], call[2], fault)
    \/ \E inspect \in ExecInspections : ExecInspect(inspect)
    \/ ExecSleep
    \/ ExecReturn

\* the process that executes the command keeps running
SpecExec == Init /\ [][NextExec]_vars /\ WF_vars(NextExec)

\* Two invocations start or restore databases under two names, one of which
\* has a volume directory left from an earlier database; containers also
\* disappear behind mkdb's back.
FlightKinds == {"start", "restore"}
FlightFaults == {"none", "create"}

InitFlights ==
    /\ containers = {}
    /\ users = {}
    /\ events = <<>>
    /\ nextId = 1
    /\ nextUid = 1
    /\ runtime = {}
    /\ nextRid = 1
    /\ dockerVols = DockerVolumeNames
    /\ dirs = {VolumePathOf("a")}
    /\ now = 0
    /\ pc = "idle"
    /\ work = <<>>
    /\ last = Idle("none")
    /\ InitKeys
    /\ InitLib

NextFlights ==
    \/ \E p \in Procs, kind \in FlightKinds, n \in Names, t \in DBTypes,
          pin \in PortInputs :
            FlightLookup(p, kind, n, t, pin)
    \/ \E p \in Procs, fault \in FlightFaults : FlightCreate(p, fault)
    \/ \E p \in Procs, nonce \in Nonces : FlightStore(p, nonce)
    \/ \E r \in runtime : ExternalReap(r)

SpecFlights == InitFlights /\ [][NextFlights]_vars

\* Two databases go through create, stop, restart, restore and remove; the
\* daemon can fail to stop a container, or to remove one it has stopped.
LifecycleProfiles == {<<"named", "auth">>, <<"none", "flag_noauth">>}

NextLifecycle ==
    \/ \E n \in Names, t \in DBTypes, ver \in Versions, p \in PortInputs,
          prof \in LifecycleProfiles, ttl \in TTLInputs,
          gen \in GeneratedPasswords, nonce \in Nonces :
            Create(n, t, ver, p, prof[1], prof[2], ttl, gen, nonce, "none",
                   NoFaults)
    \/ \E c \in containers, fault \in StopFaults : Stop(c, fault, NoFaults)
    \/ \E c \in containers : Restart(c, "none", NoFaults)
    \/ \E c \in containers : RmBegin(c, {}, NoFaults)
    \/ RmDelete(NoFaults)
    \/ \E v \in Names, t \in DBTypes, ver \in RestoreVersions, p \in PortInputs,
          ttl \in TTLInputs, nonce \in Nonces :
            Restore(v, t, ver, p, ttl, nonce, "none", NoFaults)

SpecLifecycle == Init /\ [][NextLifecycle]_vars

\* One database is created, stopped, restarted and extended, by hand or by
\* an expiration sweep that removes nothing.
NextFrame ==
    \/ \E n \in StartNames, t \in DBTypes, ver \in Versions, p \in PortInputs,
          prof \in StartProfiles, ttl \in TTLInputs,
          gen \in GeneratedPasswords, nonce \in Nonces :
            Create(n, t, ver, p, prof[1], prof[2], ttl, gen, nonce, "none",
                   NoFaults)
    \/ \E c \in containers : Stop(c, "none", NoFaults)
    \/ \E c \in containers : Restart(c, "none", NoFaults)
    \/ \E c \in containers, hours \in HoursInputs : Extend(c, hours, NoFaults)
    \/ \E toExtend \in SUBSET containers, hours \in HoursInputs :
          Sweep(toExtend, hours, {}, NoFaults)
    \/ \E r \in runtime : ExternalReap(r)
    \/ Tick

SpecFrame == Init /\ [][NextFrame]_vars

\* Two databases are created and removed, by hand or by the expiration
\* sweep; the event row of a create may fail to be written, which create
\* ignores.
CreateEventFaults == {{}, {"event"}}
SweepProfiles == {<<"named", "auth">>}

NextSweeps ==
    \/ \E n \in Names, t \in DBTypes, ver \in Versions, p \in PortInputs,
          prof \in SweepProfiles, ttl \in TTLInputs,
          gen \in GeneratedPasswords, nonce \in Nonces,
          sf \in CreateEventFaults :
            Create(n, t, ver, p, prof[1], prof[2], ttl, gen, nonce, "none", sf)
    \/ \E c \in containers : RmBegin(c, {}, NoFaults)
    \/ RmDelete(NoFaults)
    \/ \E toExtend \in SUBSET containers, hours \in HoursInputs,
          toRemove \in SUBSET containers :
            Sweep(toExtend, hours, toRemove, NoFaults)
    \/ SweepClean({}, NoFaults)
    \/ SweepDelete(NoFaults)
    \/ Tick

SpecSweeps == Init /\ [][NextSweeps]_vars

\* Invocations that run at the same time, store credentials and read them
\* back.
NextKeyRace ==
    \/ \E p \in Invocations : KeyStat(p)
    \/ \E p \in Invocations, fresh \in FreshKeys : KeyOpen(p, fresh)
    \/ \E p \in Invocations : KeyWrite(p)
    \/ \E p \in Invocations : KeyLoad(p)
    \/ \E p \in Invocations, plaintext \in PlaintextInputs,
          nonce \in NonceInputs :
            StoreCredential(p, plaintext, nonce)
    \/ \E p \in Invocations, s \in vault : ReadCredential(p, s)
    \/ \E p \in Invocations : ProcessExit(p)

SpecKeyRace == Init /\ [][NextKeyRace]_vars

\* ------------------------------------------------------------ properties
\* the record a command named, as the store held it
Named(rows, n) == {c \in rows : c.display_name = n}

\* C1: a Create for a display name that already has a container record
\* fails and changes nothing: no runtime container, no container, user or
\* event row, no volume directory.
C1_CreateExistingNameFails ==
    [][(last'.op = "start" /\ Named(containers, last'.name) # {})
          => /\ ~last'.ok
             /\ UNCHANGED <<containers, users, events, nextId, nextUid,
                            runtime, nextRid, dockerVols, dirs>>]_vars

\* a Create was refused because the name is taken, with the record in place
C1_Witness ==
    /\ last.op = "start"
    /\ last.err = "exists"
    /\ Named(containers, last.name) # {}

\* C2: once Remove or the expiration cleanup has deleted a container
\* record, no user row and no event row refers to the deleted record's id.
C2_DeleteLeavesNoRows ==
    [][\A c \in containers :
          c.id \notin IdsOf(containers')
             => /\ \A u \in users' : u.container_id # c.id
                /\ \A i \in 1 .. Len(events') : events'[i].container_id # c.id]_vars

\* C3: extending by h > 0 hours sets expires_at to the old value plus h
\* when the record has not expired (now <= old), and to now plus h when it
\* has (now > old).
C3_ExtendFromNowWhenExpired ==
    [][\A c \in containers, d \in containers' :
          (d.id = c.id /\ d.expires_at # c.expires_at)
             => /\ last'.hours > 0
                /\ d.expires_at = IF now <= c.expires_at
                                  THEN c.expires_at + last'.hours
                                  ELSE now + last'.hours]_vars

\* the daemon holds a container for the record
InstanceOf(rt, c) == {r \in rt : r.name = c.name}

\* C4: between commands, a record's container_id is non-empty exactly when
\* the runtime holds an instance for it, in every state that create, stop,
\* restart, remove, restore and the expiration cleanup can reach.
C4_ContainerIdIffInstance ==
    pc = "idle" =>
        \A c \in containers :
            (c.container_id # EmptyID) <=> (InstanceOf(runtime, c) # {})

\* C5: a successful Stop of a running record sets its status to stopped and
\* changes no other column, appends exactly one stopped event, leaves the
\* volume reference, the volume directory and the user rows alone, and
\* leaves the daemon without the instance; the persisted result is this one
\* whether or not the instance was still there.
C5_StopPersistsStopped ==
    [][(last'.op = "stop" /\ last'.ok)
          => \E c \in Named(containers, last'.name) :
                /\ c.status = "running"
                /\ containers' = (containers \ {c})
                                     \cup {[c EXCEPT !.status = "stopped"]}
                /\ events' = Append(events, Event(c.id, "stopped"))
                /\ UNCHANGED <<users, dirs, dockerVols, nextId, nextUid>>
                /\ \A r \in runtime' : r.id # c.container_id]_vars

\* a Stop succeeded on a record whose instance was already gone
C5_Witness ==
    /\ last.op = "stop"
    /\ last.ok
    /\ ~last.present
    /\ \E c \in Named(containers, last.name) : c.status = "stopped"

\* the instance a Restart created for the record: recorded port, volume and
\* default-user credentials
Recreated(c, d) ==
    \E r \in runtime' \ runtime, u \in users :
        /\ r.id = d.container_id
        /\ r.id # c.container_id
        /\ r.name = c.name
        /\ r.running
        /\ r.port = c.port
        /\ r.mount = (IF c.volume_type = "named"
                      THEN VolumesDir \o "/" \o c.volume_path
                      ELSE c.volume_path)
        /\ u.container_id = c.id
        /\ u.is_default
        /\ r.username = u.username
        /\ Decrypt(u.password_hash) = [ok |-> TRUE, val |-> r.password]

\* the instance a Restart started again where it was
RestartedInPlace(c, d) ==
    /\ d.container_id = c.container_id
    /\ IdsOf(runtime') = IdsOf(runtime)
    /\ \E r \in runtime' : r.id = c.container_id /\ r.running

\* C6: a successful Restart of a record whose instance is gone recreates it
\* with the recorded port, volume type and reference and the default
\* user's username and decrypted password, stores the new runtime id, sets
\* status running and appends one restarted event; when the instance is
\* there it is restarted in place and container_id does not change.
C6_RestartRecreatesFromRecord ==
    [][(last'.op = "restart" /\ last'.ok)
          => \E c \in Named(containers, last'.name) :
                \E d \in Named(containers', last'.name) :
                   /\ d.id = c.id
                   /\ d.status = "running"
                   /\ events' = Append(events, Event(c.id, "restarted"))
                   /\ IF \E r \in runtime : r.id = c.container_id
                      THEN RestartedInPlace(c, d)
                      ELSE Recreated(c, d)]_vars

\* a Restart recreated the instance of a stopped record with a named volume
\* and a password
C6_Witness ==
    /\ last.op = "restart"
    /\ last.ok
    /\ ~last.present
    /\ \E c \in Named(containers, last.name), r \in runtime :
          /\ c.volume_type = "named"
          /\ r.id = c.container_id
          /\ r.password # ""

\* C7: every stopped record is brought back to running by Restart whenever
\* the runtime calls succeed, with or without authentication.
C7_StoppedAlwaysRestarts ==
    [][(/\ last'.op = "restart"
        /\ last'.err # "runtime"
        /\ \E c \in Named(containers, last'.name) : c.status = "stopped")
          => /\ last'.ok
             /\ \E d \in Named(containers', last'.name) : d.status = "running"]_vars

\* the rows a step deletes
Deleted == {c \in containers : c.id \notin IdsOf(containers')}

\* C8: Remove deletes the record and reports success whichever of runtime
\* stop, runtime remove and volume removal fail.  Each failure is only a
\* warning and the steps after it still run: the instance is removed unless
\* its removal itself failed, the volume is removed unless that failed, the
\* event is written, and the row is deleted next.
C8_RemoveSurvivesCleanupFailures ==
    [][/\ last'.op \in {"rm_cleanup", "sweep_cleanup"}
          => \E c \in Named(containers, last'.name) :
                /\ last'.ok
                /\ last'.warns \subseteq {"stop", "remove", "volume"}
                /\ "remove" \notin last'.warns
                      => \A r \in runtime' : r.id # c.container_id
                /\ (c.volume_path # "" /\ "volume" \notin last'.warns)
                      => \A v \in dockerVols' : ~NameMatches(v, c.volume_path)
                /\ Len(events') = Len(events) + 1
                /\ pc' \in {"rm_delete", "sweep_delete"}
                /\ Head(work') = c
       /\ last'.op \in {"rm", "expire"}
          => /\ last'.ok
             /\ last'.warns = last.warns
             /\ Deleted = {Head(work)}
             /\ Named(containers', last'.name) = {}]_vars

\* a Remove finished with success after all three cleanup steps had failed
C8_Witness ==
    /\ last.op = "rm"
    /\ last.ok
    /\ last.warns = {"stop", "remove", "volume"}
    /\ Named(containers, last.name) = {}
    /\ \E r \in runtime : r.name = containerPrefix \o last.name /\ r.running

\* C9: the deleted or expired event of a record is the last event written
\* before its row is deleted, the step that deletes the row writes no
\* event, and every event a step appends belongs to a record the store
\* still holds after the step.
C9_EventBeforeDelete ==
    [][/\ \A c \in Deleted :
             /\ Len(events) > 0
             /\ events[Len(events)] \in {Event(c.id, "deleted"),
                                          Event(c.id, "expired")}
             /\ Len(events') <= Len(events)
       /\ \A i \in (Len(events) + 1) .. Len(events') :
             events'[i].container_id \in IdsOf(containers')]_vars

\* the expiration cleanup has written the expired event of a record that
\* the store still holds
C9_Witness ==
    /\ pc = "sweep_delete"
    /\ Head(work) \in containers
    /\ events[Len(events)] = Event(Head(work).id, "expired")

\* C10: after Remove or the expiration cleanup has deleted a record with a
\* named volume, the volume's directory under the volumes root is gone.
C10_NamedVolumeDirRemoved ==
    [][\A c \in Deleted :
          c.volume_type = "named" => VolumePathOf(c.volume_path) \notin dirs']_vars

\* C11: ScanOrphaned reports a subdirectory of the volumes root exactly when
\* no active container record has volume type named and that directory's
\* name as its volume reference.
C11_OrphanIffNoActiveRecord ==
    \A v \in Names :
        v \in ScanOrphaned
            <=> /\ (VolumesDir \o "/" \o v) \in dirs
                /\ \A c \in containers :
                      \/ c.status = "expired"
                      \/ c.volume_type # "named"
                      \/ c.volume_path # v

\* a named volume directory is left without a record after a Remove and is
\* reported
C11_Witness ==
    /\ last.op = "rm"
    /\ last.ok
    /\ containers = {}
    /\ last.name \in ScanOrphaned

\* C12: a successful Restore of orphaned volume V writes one record with
\* display name V and status running, whose runtime instance bind-mounts
\* V's directory, one default user with the default credentials,
\* expires_at = now + TTL and one restored event; V is reported by
\* ScanOrphaned before the Restore and not after it.
C12_RestoreRebuildsFromVolume ==
    [][(last'.op = "restore" /\ last'.ok)
          => \E d \in containers' \ containers, r \in runtime' \ runtime,
                u \in users' \ users :
                /\ containers' = containers \cup {d}
                /\ users' = users \cup {u}
                /\ d.display_name = last'.name
                /\ d.status = "running"
                /\ d.expires_at = now + last'.hours
                /\ r.id = d.container_id
                /\ r.running
                /\ r.mount = VolumesDir \o "/" \o last'.name
                /\ r.username = DefaultUsername
                /\ r.password = DefaultPassword
                /\ u.container_id = d.id
                /\ u.is_default
                /\ u.username = DefaultUsername
                /\ Decrypt(u.password_hash) = [ok |-> TRUE, val |-> DefaultPassword]
                /\ events' = Append(events, Event(d.id, "restored"))
                /\ last'.name \in ScanOrphaned
                /\ last'.name \notin ScanOrphaned']_vars

\* a Restore succeeded and its volume directory is still on disk
C12_Witness ==
    /\ last.op = "restore"
    /\ last.ok
    /\ VolumePathOf(last.name) \in dirs
    /\ \E c \in Named(containers, last.name) : c.status = "running"

\* C13: the runtime instance of every record written by Create, Restore
\* or a recreating Restart runs the image of the database type and version
\* stored in the record.
C13_ImageIsRecordedVersion ==
    \A c \in containers, r \in runtime :
        r.id = c.container_id => r.image = <<c.type, c.version>>

C15_ExpiresNotBeforeCreated ==
    \A c \in containers : c.expires_at >= c.created_at

\* a running container of the daemon publishes the host port
Published(rt, port) == \E r \in rt : r.running /\ r.port = port

\* C16: a Create with an explicit host port that a runtime container
\* already publishes fails; no other port is chosen and no runtime
\* container and no record is created.
C16_ExplicitOccupiedPortFails ==
    [][(/\ last'.op = "start"
        /\ last'.port # NoPort
        /\ Published(runtime, last'.port))
          => /\ ~last'.ok
             /\ UNCHANGED <<containers, users, events, nextId, nextUid,
                            runtime, nextRid, dirs>>]_vars

\* a Create was refused for its explicit port, with the name still free
C16_Witness ==
    /\ last.op = "start"
    /\ last.err = "port"
    /\ last.port # NoPort
    /\ Published(runtime, last.port)
    /\ Named(containers, last.name) = {}

\* C17: a successful Create with no explicit port records and binds the
\* adapter's default port when no container publishes it; when one does,
\* the port recorded and bound differs from the default and no container
\* published it when it was chosen.
C17_DefaultPortOrFreeSubstitute ==
    [][(last'.op = "start" /\ last'.ok /\ last'.port = NoPort)
          => \E d \in containers' \ containers, r \in runtime' \ runtime :
                /\ r.id = d.container_id
                /\ r.port = d.port
                /\ IF Published(runtime, GetDefaultPort(d.type))
                   THEN /\ d.port # GetDefaultPort(d.type)
                        /\ ~Published(runtime, d.port)
                   ELSE d.port = GetDefaultPort(d.type)]_vars

\* a Create without a port took a substitute for the occupied default
C17_Witness ==
    /\ last.op = "start"
    /\ last.ok
    /\ last.port = NoPort
    /\ \E c \in Named(containers, last.name) :
          /\ c.port # GetDefaultPort(c.type)
          /\ \E r \in runtime : r.id # c.container_id /\ r.running
                                  /\ r.port = GetDefaultPort(c.type)

\* C18: FindAvailablePort(start) returns the lowest port of
\* start .. start+99 that no runtime container publishes, reports not
\* found exactly when all hundred are published, and returns no port
\* outside that range.
C18_FindAvailablePortLowestFree ==
    \A t \in {"postgres", "mysql", "redis"} :
        LET start == GetDefaultPort(t)
            found == FindAvailablePort(start)
        IN  /\ found = NoPort
                  <=> \A q \in start .. (start + 99) : Published(runtime, q)
            /\ found # NoPort
                  => /\ found \in start .. (start + 99)
                     /\ ~Published(runtime, found)
                     /\ \A q \in start .. (found - 1) : Published(runtime, q)

\* the search went through 99 published ports and a Create took the last one
C18_Witness ==
    /\ last.op = "start"
    /\ last.ok
    /\ last.port = NoPort
    /\ \E c \in Named(containers, last.name) : c.port = 5432 + 99
    /\ \A q \in 5432 .. 5530 : Published(runtime, q)

\* C19: when expired records exist and no terminal is attached, the sweep
\* changes nothing: no record is modified or deleted, no event is
\* appended, the runtime and the volumes are not touched, and the next
\* sweep finds the same expired records.
C19_SweepWithoutTerminalIsNoOp ==
    [][last'.op = "sweep_skipped"
          => /\ GetExpiredContainers # {}
             /\ last'.ok
             /\ UNCHANGED <<containers, users, events, nextId, nextUid,
                            runtime, nextRid, dockerVols, dirs>>
             /\ GetExpiredContainers' = GetExpiredContainers]_vars

\* a sweep without a terminal has run over an expired record whose
\* instance is still running
C19_Witness ==
    /\ last.op = "sweep_skipped"
    /\ \E c \in GetExpiredContainers, r \in runtime :
          r.id = c.container_id /\ r.running

\* runRm and cleanupContainer leave the same state behind, up to the type
\* of the event they write
CleanupMatchesRemove ==
    \A c \in ListContainers, faults \in CleanupFaults :
        LET removed == RmEventResult(c, faults, NoFaults)
            expired == CleanupEventResult(c, faults, NoFaults)
        IN  /\ [removed EXCEPT !.events = events]
                  = [expired EXCEPT !.events = events]
            /\ removed.events = Append(events, Event(c.id, "deleted"))
            /\ expired.events = Append(events, Event(c.id, "expired"))
            /\ DeleteResult(c, removed.warns, NoFaults)
                  = DeleteResult(c, expired.warns, NoFaults)

\* C20: from the same state the expiration cleanup and a manual Remove of
\* a record end in the same final state, except for the type of the event
\* written (expired, deleted); when no cleanup step fails, in that state
\* the runtime instance is gone, the named volume is removed, and the
\* record and its users are deleted.
C20_CleanupSameAsRemove ==
    [][/\ CleanupMatchesRemove
       /\ \A c \in Deleted :
             last'.warns = {}
                => /\ \A r \in runtime' : r.id # c.container_id
                   /\ c.volume_type = "named"
                         => VolumePathOf(c.volume_path) \notin dirs'
                   /\ \A u \in users' : u.container_id # c.id]_vars

\* C21: GetExpiredContainers returns exactly the records whose expiry lies
\* before now and whose persisted status is neither stopped nor expired; a
\* stopped record is never returned, however long it is past its expiry.
C21_ExpiredExcludesStopped ==
    /\ GetExpiredContainers \subseteq containers
    /\ \A c \in containers :
          c \in GetExpiredContainers <=>
              (c.expires_at < now /\ c.status \notin {"stopped", "expired"})
    /\ \A c \in containers :
          c.status = "stopped" => c \notin GetExpiredContainers

\* a stopped record is past its expiry and the query leaves it out
C21_Witness ==
    /\ last.op = "tick"
    /\ \E c \in containers :
          /\ c.status = "stopped"
          /\ c.expires_at < now
          /\ c \notin GetExpiredContainers

\* the outcome C22 requires of a user command on an adapter without commands
RefusedUnsupported ==
    /\ ~last'.ok
    /\ last'.err = "unsupported"
    /\ ~last'.execd
    /\ users' = users
    /\ nextUid' = nextUid
    /\ runtime' = runtime

C23_UserMutationNeedsBothWrites ==
    [][/\ \A c \in containers, username \in UsernameInputs,
             gen \in RotatedPasswords, nonce \in Nonces, fault \in ExecFaults,
             sf \in UserStoreFaults :
               UserCreate(c, username, gen, nonce, fault, sf) =>
                 LET x == DockerCreateUser(c.container_id, c.type, username,
                                           gen, fault)
                 IN  /\ last'.ok =>
                           /\ x.err = "none" /\ last'.execd
                           /\ \E u \in users' \ users :
                                 /\ u.container_id = c.id
                                 /\ u.username = username
                                 /\ Decrypt(u.password_hash).val = gen
                     /\ x.err # "none" => (~last'.ok /\ users' = users)
                     /\ (last'.execd /\ x.err = "none" /\ "user" \in sf) =>
                           (~last'.ok /\ last'.err = "store")
       /\ \A c \in containers, u \in users, fault \in ExecFaults,
             sf \in UserStoreFaults :
               UserDelete(c, u, fault, sf) =>
                 LET x == DockerDeleteUser(c.container_id, c.type, u.username,
                                           fault)
                 IN  /\ last'.ok =>
                           /\ x.err = "none" /\ last'.execd
                           /\ users' = users \ {u}
                     /\ x.err # "none" => (~last'.ok /\ users' = users)
                     /\ (last'.execd /\ x.err = "none"
                           /\ "user_delete" \in sf) =>
                           (~last'.ok /\ last'.err = "store")
       /\ \A c \in containers, gen \in RotatedPasswords, nonce \in Nonces,
             fault \in ExecFaults, sf \in UserStoreFaults :
               (CredsRotate(c, gen, nonce, fault, sf)
                   /\ GetDefaultUser(c.id) # {}) =>
                 LET u == CHOOSE d \in GetDefaultUser(c.id) : TRUE
                     x == DockerRotatePassword(c.container_id, c.type,
                                               u.username, gen, fault)
                 IN  /\ last'.ok =>
                           /\ x.err = "none" /\ last'.execd
                           /\ \E d \in GetDefaultUser(c.id)' :
                                 d.id = u.id
                                   /\ Decrypt(d.password_hash).val = gen
                     /\ x.err # "none" => (~last'.ok /\ users' = users)
                     /\ (last'.execd /\ x.err = "none"
                           /\ "user_update" \in sf) =>
                           (~last'.ok /\ last'.err = "store")]_vars

\* a user create failed at the store after the engine had made the account
C23_Witness ==
    /\ last.op = "user_create"
    /\ last.err = "store"
    /\ last.execd
    /\ \E c \in Named(containers, last.name) :
          /\ HasAccount(c.container_id, "app")
          /\ ~UsernameTaken(c.id, "app")

\* C24: whenever Create runs without authentication, asked for by the
\* --no-auth flag or by answering no to the prompt, the default user row it
\* writes has an empty username and an empty password hash.
C24_NoAuthUserIsEmpty ==
    [][\A n \in StartNames, t \in DBTypes, ver \in Versions, p \in PortInputs,
          prof \in StartProfiles, ttl \in TTLInputs,
          gen \in GeneratedPasswords, nonce \in Nonces,
          fault \in CreateFaults :
            (/\ prof[2] \in {"flag_noauth", "prompt_noauth"}
             /\ Create(n, t, ver, p, prof[1], prof[2], ttl, gen, nonce, fault,
                       NoFaults)
             /\ last'.ok)
            => \E u \in users' \ users :
                  /\ u.is_default
                  /\ u.username = ""
                  /\ u.password_hash = EmptyHash]_vars

C26_OneDefaultUserPerRecord ==
    \A c \in containers : Cardinality(GetDefaultUser(c.id)) = 1

\* C27: every failed write to the store during create, stop, remove or
\* restore, the write of the event row included, makes the operation report
\* failure.
C27_StoreFailureFailsOperation ==
    [][/\ \A n \in StartNames, t \in DBTypes, ver \in Versions,
             p \in PortInputs, ttl \in TTLInputs, gen \in GeneratedPasswords,
             nonce \in Nonces, sf \in {{"container"}, {"user"}, {"event"}} :
               Create(n, t, ver, p, "named", "auth", ttl, gen, nonce, "none",
                      sf)
               => ~last'.ok
       /\ \A v \in Names, t \in DBTypes, ver \in RestoreVersions,
             p \in PortInputs, ttl \in TTLInputs, nonce \in Nonces,
             sf \in {{"container"}, {"user"}, {"event"}} :
               Restore(v, t, ver, p, ttl, nonce, "none", sf) => ~last'.ok
       /\ \A c \in containers, sf \in {{"update"}, {"event"}} :
               Stop(c, "none", sf) => ~last'.ok
       /\ \A c \in containers : RmBegin(c, {}, {"event"}) => ~last'.ok
       /\ RmDelete({"delete"}) => ~last'.ok]_vars

\* C28: when the runtime fails to create or to start the container during
\* Create, or during a Restart that makes the instance anew, the operation
\* fails, no runtime container made by the attempt remains and the store is
\* unchanged.
C28_FailedRuntimeCreateLeavesNothing ==
    [][(/\ \/ last'.op = "start"
           \/ last'.op = "restart" /\ ~last'.present
        /\ last'.err = "runtime")
       => /\ ~last'.ok
          /\ runtime' \subseteq runtime
          /\ UNCHANGED storeVars]_vars

\* C29: for every plaintext, the empty one included, Decrypt applied to the
\* result of Encrypt returns the plaintext, under the key the invocation
\* holds and for every nonce.
C29_DecryptInvertsEncrypt ==
    /\ \A p \in Invocations :
          kpc[p] = "up" =>
            \A plaintext \in PlaintextInputs, nonce \in NonceInputs :
              LET sealed == EncryptWith(encryptionKey[p], plaintext, nonce)
              IN  /\ sealed.ok
                  /\ DecryptWith(encryptionKey[p], sealed.val) = Ok(plaintext)
    /\ (decrypted.by > 0 /\ decrypted.by = decrypted.epoch) =>
          decrypted.result = Ok(decrypted.plain)

\* an invocation stored the empty plaintext and read it back
C29_Witness ==
    /\ decrypted.by > 0
    /\ decrypted.by = decrypted.epoch
    /\ decrypted.plain = <<>>
    /\ decrypted.result = Ok(<<>>)

\* C30: the key file is written only while it does not exist; every later
\* invocation holds the key of the file, and every ciphertext stored by an
\* invocation decrypts to its plaintext in every later invocation.
C30_KeyWrittenOnceAndReloaded ==
    [][/\ keyFile.exists => keyFile' = keyFile
       /\ \A p \in Invocations :
             kpc'[p] = "up" =>
               /\ HexDecodeString(keyFile'.data) = Ok(encryptionKey'[p])
               /\ \A s \in vault' :
                     DecryptWith(encryptionKey'[p], s.cipher) = Ok(s.plain)
       /\ decrypted'.by > 0 => decrypted'.result = Ok(decrypted'.plain)]_vars

\* a later invocation read back what an earlier one had stored
C30_Witness ==
    /\ decrypted.epoch > 0
    /\ decrypted.by > decrypted.epoch
    /\ decrypted.plain # <<>>
    /\ decrypted.result = Ok(decrypted.plain)
    /\ starts > 1

\* C31: Get and NormalizeType accept every canonical name and registered
\* alias in any letter case and between white space, and answer with the
\* owning adapter and its canonical name (pg, postgres, postgresql give
\* postgres; mysql, mariadb give mysql; redis gives redis); every other
\* string is an error; NormalizeType of its own result is that result.
C31_LookupCaseAndAliasTransparent ==
    LET postgres == <<"p", "o", "s", "t", "g", "r", "e", "s">>
        mysql == <<"m", "y", "s", "q", "l">>
        redis == <<"r", "e", "d", "i", "s">>
        owner == (<<"p", "g">> :> postgres) @@ (postgres :> postgres)
                 @@ (postgres \o <<"q", "l">> :> postgres)
                 @@ (mysql :> mysql)
                 @@ (<<"m", "a", "r", "i", "a", "d", "b">> :> mysql)
                 @@ (redis :> redis)
        Spells(w) ==
            \E i \in 0 .. Len(query) :
                /\ i + Len(w) <= Len(query)
                /\ \A k \in 1 .. i : query[k] \in AsciiSpace
                /\ \A k \in 1 .. Len(w) :
                      query[i + k] \in {w[k], ToUpperRune(w[k])}
                /\ \A k \in i + Len(w) + 1 .. Len(query) :
                      query[k] \in AsciiSpace
        known == {w \in DOMAIN owner : Spells(w)}
    IN  /\ answer.op = "get" =>
            /\ \A w \in known :
                  answer.res.ok /\ answer.res.val.name = owner[w]
            /\ known = {} => ~answer.res.ok
        /\ answer.op = "normalize" =>
            /\ \A w \in known : answer.res = Ok(owner[w])
            /\ known = {} => ~answer.res.ok
            /\ answer.res.ok =>
                  NormalizeType(GetRegistry, answer.res.val) = answer.res

\* the alias postgresql, capitals in it and white space around it, was
\* normalised to postgres
C31_Witness ==
    /\ answer.op = "normalize"
    /\ answer.res = Ok(<<"p", "o", "s", "t", "g", "r", "e", "s">>)
    /\ Len(query) > 10
    /\ query[1] \in AsciiSpace
    /\ query[Len(query)] \in AsciiSpace
    /\ \E k \in DOMAIN query : query[k] = "Q"

\* C32: every call of List returns the canonical names in the same order,
\* and that order is postgres, redis, mysql.
C32_ListOrderFixed ==
    \A i \in DOMAIN listed :
        listed[i] = << <<"p", "o", "s", "t", "g", "r", "e", "s">>,
                       <<"r", "e", "d", "i", "s">>,
                       <<"m", "y", "s", "q", "l">> >>

\* C33: waiting for a command executed inside a container always ends: once
\* the waiting loop is entered the call returns, whatever the runtime keeps
\* reporting about the command.
C33_ExecWaitTerminates ==
    (execCall.pc = "inspect") ~> (execCall.pc = "returned")

\* C34: in every reachable state, also while two invocations that start or
\* restore the same display name are interleaved, no two container records
\* have the same display name, and the internal name of every record is
\* mkdb- followed by its display name.
C34_DisplayNameUnique ==
    /\ \A c, d \in containers : c.display_name = d.display_name => c = d
    /\ \A c \in containers : c.name = "mkdb-" \o c.display_name

\* both invocations had found the name free; one wrote its record, the
\* other was refused by the store and is done
C34_Witness ==
    /\ \A p \in Procs : inflight[p].pc = "idle"
    /\ last.op \in {"start", "restore"}
    /\ last.err = "store"
    /\ \E c \in containers :
          /\ c.display_name = last.name
          /\ \A r \in runtime : r.name # c.name

\* C35: after any sequence of create, stop, restart, restore and remove, no
\* two container records with status running are bound to the same host
\* port.
C35_RunningPortsDistinct ==
    \A c, d \in containers :
        (c.status = "running" /\ d.status = "running" /\ c.port = d.port)
            => c = d

\* C36: when Stop fails because the runtime's stop call or the runtime's
\* remove call failed, the persisted record is unchanged, its status still
\* running, and no stopped event is appended.
C36_FailedStopLeavesRecord ==
    [][\A c \in containers :
          \A fault \in {"stop", "remove"} :
              (Stop(c, fault, NoFaults) /\ ~last'.ok) =>
                  /\ last'.err = "runtime"
                  /\ c \in containers'
                  /\ c.status = "running"
                  /\ containers' = containers
                  /\ events' = events]_vars

\* a stop failed in the runtime's remove call: the container is stopped and
\* still there, the record still says running
C36_Witness ==
    /\ last.op = "stop"
    /\ last.err = "runtime"
    /\ \E c \in containers :
          /\ c.display_name = last.name
          /\ c.status = "running"
          /\ \E r \in runtime : r.id = c.container_id /\ ~r.running

\* C37: Stop, Restart and TTL extension never change a record's name,
\* display name, type, version, port, created_at, volume type or volume
\* reference; after its creation only container_id, status and expires_at
\* of a record change, and Stop and Restart leave expires_at as it is.
C37_UpdatesTouchThreeColumns ==
    [][/\ \A c \in containers :
             \A d \in containers' :
                 d.id = c.id =>
                     /\ d.name = c.name
                     /\ d.display_name = c.display_name
                     /\ d.type = c.type
                     /\ d.version = c.version
                     /\ d.port = c.port
                     /\ d.created_at = c.created_at
                     /\ d.volume_type = c.volume_type
                     /\ d.volume_path = c.volume_path
                     /\ last'.op \in {"stop", "restart"} =>
                            d.expires_at = c.expires_at
       /\ last'.op \in {"stop", "restart", "extend", "sweep"} =>
             IdsOf(containers') = IdsOf(containers)]_vars

\* a database whose container was gone was restarted at a later hour: it has
\* a new runtime instance and is running, and an extension had moved its
\* expiry
C37_Witness ==
    /\ last.op = "restart"
    /\ last.ok
    /\ ~last.present
    /\ \E c \in containers :
          /\ c.display_name = last.name
          /\ c.status = "running"
          /\ c.container_id > 1
          /\ c.created_at < now
          /\ c.expires_at > c.created_at + DefaultTTL

\* C38: Remove or expiration cleanup of one record leaves every other
\* container record, the user rows of it, its runtime instance and its
\* volume untouched.
C38_RemovalLeavesOthers ==
    [][LET VolumeOf(d) ==
               IF d.volume_type = "named" THEN {VolumePathOf(d.volume_path)}
               ELSE IF d.volume_type = "bind" THEN {d.volume_path}
               ELSE {}
           OthersUntouched(t) ==
               \A d \in containers :
                   d.id # t.id =>
                       /\ d \in containers'
                       /\ {u \in users' : u.container_id = d.id}
                              = {u \in users : u.container_id = d.id}
                       /\ {r \in runtime' : r.id = d.container_id}
                              = {r \in runtime : r.id = d.container_id}
                       /\ VolumeOf(d) \cap dirs' = VolumeOf(d) \cap dirs
       IN  /\ \A c \in containers :
                 RmBegin(c, {}, NoFaults) => OthersUntouched(c)
           /\ RmDelete(NoFaults) => OthersUntouched(Head(work))
           /\ SweepClean({}, NoFaults) => OthersUntouched(Head(work))
           /\ SweepDelete(NoFaults) => OthersUntouched(Head(work))]_vars

\* one of two databases was removed by the sweep; the other still has its
\* record, its default user, its running container and its volume directory
C38_Witness ==
    /\ last.op = "expire"
    /\ last.ok
    /\ \A c \in containers : c.display_name # last.name
    /\ \E d \in containers :
          /\ GetDefaultUser(d.id) # {}
          /\ \E r \in runtime : r.id = d.container_id /\ r.running
          /\ VolumePathOf(d.volume_path) \in dirs

\* C39: within one expiration sweep an expired record gets at most one
\* disposition: a record selected for extension is not among those offered
\* for or subjected to removal in that sweep, and a record selected for
\* neither is left as it is in the store, the runtime and the volumes.
C39_OneDispositionPerSweep ==
    [][LET Untouched(d) ==
               /\ d \in containers'
               /\ {u \in users' : u.container_id = d.id}
                      = {u \in users : u.container_id = d.id}
               /\ {r \in runtime' : r.id = d.container_id}
                      = {r \in runtime : r.id = d.container_id}
               /\ dirs' = dirs
       IN  /\ \A toExtend \in SUBSET containers, toRemove \in SUBSET containers :
                 \A hours \in HoursInputs :
                     Sweep(toExtend, hours, toRemove, NoFaults) =>
                         /\ \A i \in DOMAIN work' :
                               /\ work'[i] \in toRemove
                               /\ work'[i] \notin toExtend
                         /\ \A e \in toExtend :
                               \E d \in containers' :
                                   d.id = e.id /\ d.expires_at = now + hours
                         /\ \A d \in GetExpiredContainers :
                               d \notin toExtend => d \in containers'
                         /\ \A d \in GetExpiredContainers \ (toExtend \cup toRemove) :
                               Untouched(d)
           /\ (SweepClean({}, NoFaults) \/ SweepDelete(NoFaults)) =>
                 /\ \A i \in DOMAIN work' : \E j \in DOMAIN work : work'[i] = work[j]
                 /\ \A d \in containers : d.id # Head(work).id => Untouched(d)]_vars

\* a sweep found two expired databases, the operator extended one and chose
\* the other for removal: only the other is on the removal list
C39_Witness ==
    /\ last.op = "sweep"
    /\ last.hours > 0
    /\ pc = "sweep_clean"
    /\ Len(work) = 1
    /\ Cardinality(containers) = 2
    /\ \E c \in containers : c.id # work[1].id /\ c.expires_at = now + last.hours
    /\ work[1] \in containers

\* C40: when two invocations initialise the encryption key at the same time
\* and there is no key file yet, both hold the key of the key file once both
\* have finished, and every credential either of them encrypts decrypts in
\* the invocations that read it later.
C40_ConcurrentInitSharesKey ==
    /\ (\A p \in Invocations : kpc[p] = "up") =>
          \A p \in Invocations :
              HexDecodeString(keyFile.data) = Ok(encryptionKey[p])
    /\ decrypted.by > 0 => decrypted.result = Ok(decrypted.plain)
====
